---- MODULE Spec2Model ----
(***************************************************************************)
(* Rointe Nexa integration: the token lifecycle of RointeAuth (auth.py),   *)
(* the entry setup/unload of the integration (__init__.py), the Firebase   *)
(* wire-protocol client RointeWebSocket (ws.py), the REST directory        *)
(* (api.py), the configuration flow and the entities.                      *)
(*                                                                         *)
(* SpecAuth : callers of async_rest_token / async_firebase_token on one    *)
(*            RointeAuth object, under a mock clock, with the HTTP         *)
(*            responses drawn from small sets.                             *)
(* Spec     : async_setup_entry, the RointeWebSocket coroutines and        *)
(*            async_unload_entry on one config entry.                      *)
(* SpecRid  : the client after a completed setup, its connection dropping  *)
(*            and being re-established while send() is called.             *)
(* SpecMsg  : _handle_message on the frames the listener reads, the        *)
(*            discovered directory, the pending map and the frames drawn   *)
(*            from small sets.                                             *)
(* SpecCmd  : the command methods of the climate and switch entities       *)
(*            (climate.py, switch.py) calling send(), with the connection  *)
(*            up, lost or dropped.                                         *)
(* SpecAcct : the client of one account beside the stored entry of         *)
(*            another account.                                             *)
(* SpecFlow : the user step of the configuration flow (config_flow.py)     *)
(*            and the setup of the entry it creates.                       *)
(* SpecDir  : RointeAPI.list_devices (api.py) on the /installations        *)
(*            answers drawn from a small set.                              *)
(* SpecConn : connect() called again on a connected client.                *)
(* SpecHvac : async_set_hvac_mode and _handle_update of a heater entity.   *)
(* SpecGet  : one call of RointeAPI._get, its GETs and login POSTs         *)
(*            answered from small sets.                                    *)
(***************************************************************************)
EXTENDS Integers, Sequences, FiniteSets, TLC

\* RointeAuth: the clock, the stored REST and Firebase token fields, the
\* running token-getter invocations, the last completed one, their number.
VARIABLES now, rest, fb, call, last, ncalls

\* async_setup_entry's position and outcomes; hass.data[DOMAIN][entry_id]
\* (and, in it, the data of another account's entry).
VARIABLES setup, entry

\* The RointeWebSocket object with its tasks, and every socket opened so far.
VARIABLES cl, socks

authVars == <<now, rest, fb, call, last, ncalls>>

setupVars == <<setup, entry>>

wsVars == <<cl, socks>>

vars == <<now, rest, fb, call, last, ncalls, setup, entry, cl, socks>>

(***************************************************************************)
(* auth.py                                                                 *)
(***************************************************************************)

\* Python's None for a token, a refresh token or a user id.
NoneV == "None"

\* Python's None for an expiry datetime (expiries are seconds on the clock).
NoExpiry == -1

\* TOKEN_EXPIRY_BUFFER = timedelta(minutes=5), in seconds.
TOKEN_EXPIRY_BUFFER == 300

\* data.get("expires_in", 3600) / response_data.get("expiresIn", 3600)
DefaultExpiresIn == 3600

\* The mock clock is set forward along a timeline of instants (seconds);
\* a run uses the first MaxInstant of them.
Instants == <<60, 3299, 3300, 3301, 3400, 3600, 3660, 7200>>

MaxInstant == 6

\* How many invocations of the token getters a run makes.
MaxCalls == 3

\* Concurrent callers of the token getters.
Callers == {"c1", "c2"}

\* expires_in: missing, a number of seconds, or a value timedelta()/int() rejects.
ExpAbsent == [k |-> "absent", v |-> 0]

ExpBad == [k |-> "bad", v |-> 0]

ExpInt(n) == [k |-> "int", v |-> n]

\* A 200 response body: its token, refresh-token and user fields ("None":
\* the key is missing, .get() gives None; user "null": JSON null) and its
\* expires_in.
Body(tok, ref, user, exp) ==
    [status |-> 200, token |-> tok, refresh |-> ref, user |-> user, exp |-> exp]

\* Another status (401, 400, 5xx) or, as 0, aiohttp.ClientError.
Failure(status) == [Body(NoneV, NoneV, NoneV, ExpAbsent) EXCEPT !.status = status]

\* The HTTP exchanges a login / refresh POST is answered with.
Responses ==
    { Body("T1", "R1", "U1", ExpInt(3600)),
      Body("T2", "R1", "U1", ExpInt(60)),
      Body("T2", NoneV, "U1", ExpAbsent),
      Body(NoneV, NoneV, NoneV, ExpAbsent),
      Body("T2", "R1", "null", ExpInt(3600)),
      Body("T2", "R1", "U1", ExpBad),
      Failure(401), Failure(500), Failure(0) }

\* RointeAuth.__init__: the REST and Firebase token fields.
InitRest == [token |-> NoneV, refresh |-> NoneV, userId |-> NoneV, expiry |-> NoExpiry]

InitFb == [idToken |-> NoneV, refreshToken |-> NoneV, expiry |-> NoExpiry]

\* expires_in as the code reads it: the default when the key is missing.
ExpiresIn(e) == IF e.k = "absent" THEN DefaultExpiresIn ELSE e.v

\* async_login_rest on response r at time t: the fields are assigned one by
\* one, and an exception (user is null, expires_in is no number) leaves the
\* ones assigned before it in place.  Every failure is RointeRestAuthError.
AsyncLoginRest(st, r, t) ==
    IF r.status # 200
    THEN [st |-> st, out |-> "RestAuthError"]
    ELSE LET s1 == [st EXCEPT !.token = r.token, !.refresh = r.refresh]
         IN  IF r.user = "null"
             THEN [st |-> s1, out |-> "RestAuthError"]
             ELSE LET s2 == [s1 EXCEPT !.userId = r.user]
                  IN  IF r.exp.k = "bad"
                      THEN [st |-> s2, out |-> "RestAuthError"]
                      ELSE [st |-> [s2 EXCEPT !.expiry = t + ExpiresIn(r.exp)],
                            out |-> "ok"]

\* async_login_firebase on response r (after the user-id guard).
AsyncLoginFirebase(st, r, t) ==
    IF r.status # 200
    THEN [st |-> st, out |-> "FirebaseAuthError"]
    ELSE LET s1 == [st EXCEPT !.idToken = r.token, !.refreshToken = r.refresh]
         IN  IF r.exp.k = "bad"
             THEN [st |-> s1, out |-> "FirebaseAuthError"]
             ELSE [st |-> [s1 EXCEPT !.expiry = t + ExpiresIn(r.exp)],
                   out |-> "ok"]

\* _async_refresh_firebase_token on response r.
AsyncRefreshFirebase(st, r, t) ==
    IF r.status # 200
    THEN [st |-> st, out |-> "FirebaseAuthError"]
    ELSE LET s1 == [st EXCEPT !.idToken = r.token, !.refreshToken = r.refresh]
         IN  IF r.exp.k = "bad"
             THEN [st |-> s1, out |-> "FirebaseAuthError"]
             ELSE [st |-> [s1 EXCEPT !.expiry = t + ExpiresIn(r.exp)],
                   out |-> "ok"]

\* TokenStale without the expiry buffer: a token counts as fresh until the
\* very second it expires.
TokenStaleNoBuffer(tok, exp, t) ==
    \/ tok = NoneV
    \/ exp = NoExpiry
    \/ t >= exp

\* The staleness test of async_rest_token / async_firebase_token.
TokenStale(tok, exp, t) ==
    \/ tok = NoneV
    \/ exp = NoExpiry
    \/ t + TOKEN_EXPIRY_BUFFER >= exp

\* is_firebase_token_valid / is_rest_token_valid.
TokenValid(tok, exp, t) == tok # NoneV /\ exp # NoExpiry /\ t < exp

\* Whether a login / refresh changed the token value, the refresh token or
\* the expiry of its kind.
RestChanged(old, new) ==
    old.token # new.token \/ old.refresh # new.refresh \/ old.expiry # new.expiry

FbChanged(old, new) ==
    old.idToken # new.idToken \/ old.refreshToken # new.refreshToken
        \/ old.expiry # new.expiry

\* What a getter found when it was called: whether the token was stale, and
\* the stored refresh token.
Found(stale, refresh) == [stale |-> stale, refresh |-> refresh]

\* A login, refresh or sign-in a getter made: which, the status of the
\* response (NoPost: it raised before its POST) and whether it succeeded.
Try(kind, status, ok) == [kind |-> kind, status |-> status, ok |-> ok]

NoPost == -2

\* One invocation of a token getter while it runs: where it is suspended,
\* whether a failed attempt of it changed the stored fields, what it found
\* when called and the attempts it has made.
IdleCall ==
    [pc |-> "idle", wrote |-> FALSE, found |-> Found(FALSE, NoneV), tries |-> <<>>]

\* The invocation that completed last: the kind of token asked for, how it
\* ended ("returned" or "raised"), the value or error, the returned token's
\* remaining lifetime (expiry - now) at the moment of return, and whether a
\* failed attempt of it changed the stored fields, what it found when called
\* and the attempts it made.
Completed(kind, out, res, left, wrote, found, tries) ==
    [kind |-> kind, out |-> out, res |-> res, left |-> left, wrote |-> wrote,
     found |-> found, tries |-> tries]

NoCompleted == Completed("none", "none", NoneV, 0, FALSE, Found(FALSE, NoneV), <<>>)

InitAuthFields ==
    /\ now = 0
    /\ rest = InitRest
    /\ fb = InitFb
    /\ call = [c \in Callers |-> IdleCall]
    /\ last = NoCompleted
    /\ ncalls = 0

\* No call of RointeAPI._get runs.  (A call has its position, retry_count,
\* the statuses of its GETs, the login POSTs made for it, those made after a
\* 401, the GETs made after a 401, the delays slept and the exception raised.)
NoGet ==
    [pc |-> "none", retry_count |-> 0, gets |-> <<>>, posts |-> 0, reposts |-> 0,
     regets |-> 0, delays |-> <<>>, err |-> "none"]

\* No call of list_devices is followed.
NoListDevices ==
    [pc |-> "none", fetched |-> "none", response |-> [t |-> "none"],
     out |-> "none", devices |-> <<>>]

\* async_setup_entry before it runs: where it is, whether entry.data holds
\* an email and a password, how the REST login and the Firebase sign-in
\* ended, whether a RointeWebSocket object was created, whether discovery
\* ran, and the outcome (True, or why ConfigEntryNotReady); with it the
\* submissions the configuration flow of the entry was given and the call of
\* list_devices and the call of _get followed on their own.
InitSetup(creds) ==
    [pc |-> "init", creds |-> creds, restOut |-> "none", fbOut |-> "none",
     wsObj |-> FALSE, discovered |-> FALSE, result |-> "pending",
     flow |-> <<>>, dir |-> NoListDevices, get |-> NoGet]

\* No other config entry has stored data in hass.data[DOMAIN].
NoOther == [stored |-> FALSE, devices |-> <<>>]

\* RointeHeater.__init__: hvac_mode OFF, preset ECO, available; with them the
\* mode the last async_set_hvac_mode was called with, the updates it built,
\* how it ended, and whether the update handled last echoed those updates.
NewHeater ==
    [hvac_mode |-> "off", preset |-> "eco", available |-> TRUE,
     asked |-> "none", wrote |-> [status |-> "none", power |-> 0],
     ended |-> "none", echoed |-> FALSE]

\* hass.data[DOMAIN] without the entry's data; other is the data of another
\* account's entry, set up earlier (so it comes first in the dict).  With it
\* the heater entity of the entry's first device.
NoEntry ==
    [stored |-> FALSE, devices |-> <<>>, ws |-> FALSE, other |-> NoOther,
     heater |-> NewHeater]

InitSetupFields ==
    /\ setup = InitSetup(TRUE)
    /\ entry = NoEntry

\* No coroutine is inside _connect / _schedule_reconnect.  (A coroutine
\* there has its position, the task it runs in, the frames _subscribe_to_devices
\* set out to send and the one it is at, the request id _send_and_wait waits
\* on, and the delay slept.)
NoChain ==
    [pc |-> "none", owner |-> "none", plan |-> <<>>, idx |-> 0, req |-> 0, delay |-> 0]

\* No task runs that the client holds no reference to.  (Such tasks are the
\* listeners, named by the sockets they read, and the keep-alive tasks that
\* were running when _connect started the next ones.)
NoStrays == [listeners |-> {}, keepalives |-> 0]

\* RointeWebSocket.__init__: running, ws (0: None), session, reconnect_attempts,
\* _rid, _keepalive_task ("none": None), _pending_requests; with them the
\* listener task's socket (0: no listener), the coroutine running _connect,
\* the last error logged on the current connection, the pings sent, how the
\* last _send_and_wait ended, the async_dispatcher_send calls made, the
\* number of bursts of send() calls served, for every frame given to
\* _handle_message, the frame, the request it resolved and whether an
\* exception was logged, for every command of an entity, what came of it, and
\* the tasks left running without a reference.
NewClient ==
    [running |-> FALSE, ws |-> 0, session |-> "none", attempts |-> 0,
     rid |-> 100, kaTask |-> "none", listener |-> 0, pending |-> {},
     chain |-> NoChain, logged |-> "none", pings |-> 0,
     waited |-> "none", pubs |-> <<>>, bursts |-> 0, handled |-> <<>>,
     cmds |-> <<>>, strays |-> NoStrays]

InitWsFields ==
    /\ cl = NewClient
    /\ socks = <<>>
InitAuth == InitAuthFields /\ InitSetupFields /\ InitWsFields

\* The mock clock is set forward.
Tick ==
    /\ \E i \in 1..MaxInstant : Instants[i] > now /\ now' = Instants[i]
    /\ UNCHANGED <<rest, fb, call, last, ncalls, setupVars, wsVars>>

\* The invocation of caller c ends: it returns a value or raises.
Finish(c, kind, out, res, left, wrote, found, tries) ==
    /\ call' = [call EXCEPT ![c] = IdleCall]
    /\ last' = Completed(kind, out, res, left, wrote, found, tries)

\* async_rest_token up to its first suspension: return the cached token, or
\* start async_login_rest (the POST is in flight).
CallRestToken(c) ==
    /\ call[c].pc = "idle"
    /\ ncalls < MaxCalls
    /\ ncalls' = ncalls + 1
    /\ LET found == Found(TokenStale(rest.token, rest.expiry, now), rest.refresh)
       IN  IF found.stale
           THEN /\ call' = [call EXCEPT ![c].pc = "rest_login", ![c].found = found]
                /\ UNCHANGED last
           ELSE Finish(c, "rest", "returned", rest.token, rest.expiry - now, FALSE,
                       found, <<>>)
    /\ UNCHANGED <<now, rest, fb, setupVars, wsVars>>

\* The login POST completes; async_login_rest stores or raises, and
\* async_rest_token returns self._rest_token.
RestLoginResponse(c) ==
    /\ call[c].pc = "rest_login"
    /\ \E r \in Responses :
         LET o == AsyncLoginRest(rest, r, now)
             tries == <<Try("rest_login", r.status, o.out = "ok")>>
         IN  /\ rest' = o.st
             /\ IF o.out = "ok"
                THEN Finish(c, "rest", "returned", o.st.token, o.st.expiry - now, FALSE,
                            call[c].found, tries)
                ELSE Finish(c, "rest", "raised", o.out, 0, RestChanged(rest, o.st),
                            call[c].found, tries)
    /\ UNCHANGED <<now, fb, ncalls, setupVars, wsVars>>

\* async_login_firebase up to its POST: without a user id it raises at once.
StartLoginFirebase(c, wrote, found, tries) ==
    IF rest.userId = NoneV
    THEN Finish(c, "firebase", "raised", "FirebaseAuthError", 0, wrote, found,
                Append(tries, Try("fb_signin", NoPost, FALSE)))
    ELSE /\ call' = [call EXCEPT ![c] = [pc |-> "fb_login", wrote |-> wrote,
                                         found |-> found, tries |-> tries]]
         /\ UNCHANGED last

\* async_firebase_token going to the full sign-in whenever the token is
\* stale, the refresh token unused.
CallFirebaseTokenSignInOnly(c) ==
    /\ call[c].pc = "idle"
    /\ ncalls < MaxCalls
    /\ ncalls' = ncalls + 1
    /\ LET found == Found(TokenStale(fb.idToken, fb.expiry, now), fb.refreshToken)
       IN  IF found.stale
           THEN StartLoginFirebase(c, FALSE, found, <<>>)
           ELSE Finish(c, "firebase", "returned", fb.idToken, fb.expiry - now, FALSE,
                       found, <<>>)
    /\ UNCHANGED <<now, rest, fb, setupVars, wsVars>>

\* async_firebase_token up to its first suspension.
CallFirebaseToken(c) ==
    /\ call[c].pc = "idle"
    /\ ncalls < MaxCalls
    /\ ncalls' = ncalls + 1
    /\ LET found == Found(TokenStale(fb.idToken, fb.expiry, now), fb.refreshToken)
       IN  IF found.stale
           THEN IF fb.refreshToken # NoneV
                THEN /\ call' = [call EXCEPT ![c].pc = "fb_refresh", ![c].found = found]
                     /\ UNCHANGED last
                ELSE StartLoginFirebase(c, FALSE, found, <<>>)
           ELSE Finish(c, "firebase", "returned", fb.idToken, fb.expiry - now, FALSE,
                       found, <<>>)
    /\ UNCHANGED <<now, rest, fb, setupVars, wsVars>>

\* The refresh POST completes: on RointeFirebaseAuthError the getter falls
\* back to async_login_firebase.
FbRefreshResponse(c) ==
    /\ call[c].pc = "fb_refresh"
    /\ \E r \in Responses :
         LET o == AsyncRefreshFirebase(fb, r, now)
             tries == <<Try("fb_refresh", r.status, o.out = "ok")>>
         IN  /\ fb' = o.st
             /\ IF o.out = "ok"
                THEN Finish(c, "firebase", "returned", o.st.idToken, o.st.expiry - now,
                            FALSE, call[c].found, tries)
                ELSE StartLoginFirebase(c, FbChanged(fb, o.st), call[c].found, tries)
    /\ UNCHANGED <<now, rest, ncalls, setupVars, wsVars>>

\* The sign-in POST completes.
FbLoginResponse(c) ==
    /\ call[c].pc = "fb_login"
    /\ \E r \in Responses :
         LET o == AsyncLoginFirebase(fb, r, now)
             tries == Append(call[c].tries, Try("fb_signin", r.status, o.out = "ok"))
         IN  /\ fb' = o.st
             /\ IF o.out = "ok"
                THEN Finish(c, "firebase", "returned", o.st.idToken, o.st.expiry - now,
                            FALSE, call[c].found, tries)
                ELSE Finish(c, "firebase", "raised", o.out, 0,
                            call[c].wrote \/ FbChanged(fb, o.st), call[c].found, tries)
    /\ UNCHANGED <<now, rest, ncalls, setupVars, wsVars>>

NextAuth ==
    \/ Tick
    \/ \E c \in Callers : CallRestToken(c)
    \/ \E c \in Callers : RestLoginResponse(c)
    \/ \E c \in Callers : CallFirebaseToken(c)
    \/ \E c \in Callers : FbRefreshResponse(c)
    \/ \E c \in Callers : FbLoginResponse(c)

SpecAuth == InitAuth /\ [][NextAuth]_vars

(***************************************************************************)
(* ws.py: RointeWebSocket                                                  *)
(***************************************************************************)

\* self.max_reconnect_attempts, self.base_reconnect_delay and
\* self.max_reconnect_delay (seconds).
max_reconnect_attempts == 10

base_reconnect_delay == 1

max_reconnect_delay == 60

\* self._rid before the first connection.
InitialRid == 100

\* random.uniform(-jitter_range, jitter_range), in thousandths.
JitterPermille == {-100, 0, 100}

\* How many sockets a run opens, and how many keep-alive pings it sends.
MaxSockets == 2

MaxPings == 1

\* How many bursts of send() calls a run makes, and the numbers of calls a
\* burst may hold: one call, or enough of them to take the request counter
\* from its value after a connect sequence up to 100.
MaxBursts == 1

\* Entity commands in a run.
MaxCmds == 2

CommandBursts == {1, 96, 98}

\* A zone of the /installations answer: its id, its name and its devices.
RestZone(id, name, devs) == [id |-> id, name |-> name, devices |-> devs]

RestDevice(id, serial) == [id |-> id, serialNumber |-> serial]

\* list_devices: the device_info built for a device of a zone. It carries the
\* zone's name under "zone" and no "zone_id" key: device.get("zone_id") is
\* None for every device of the directory.
DeviceInfo(z, d) ==
    [id |-> d.id, zone |-> z.name, serialNumber |-> d.serialNumber, zone_id |-> NoneV]

\* list_devices: a device without id is skipped.
ZoneDevices(z) ==
    LET ds == SelectSeq(z.devices, LAMBDA d : d.id # NoneV)
    IN  [i \in DOMAIN ds |-> DeviceInfo(z, ds[i])]

RECURSIVE ListDevices(_)
ListDevices(zs) ==
    IF zs = <<>> THEN <<>> ELSE ZoneDevices(Head(zs)) \o ListDevices(Tail(zs))

\* What REST discovery may return: nothing, or one device of one zone.
DeviceA == DeviceInfo(RestZone("Z1", "Living", <<>>), RestDevice("uuid-A", "SN1"))

DiscoveredZones == <<RestZone("Z1", "Living", <<RestDevice("uuid-A", "SN1")>>)>>

Directories == { ListDevices(<<>>), ListDevices(DiscoveredZones) }

Min(a, b) == IF a <= b THEN a ELSE b

RECURSIVE Pow2(_)
Pow2(n) == IF n <= 0 THEN 1 ELSE 2 * Pow2(n - 1)

Max(a, b) == IF a >= b THEN a ELSE b

\* The delay without the cap of max_reconnect_delay.
ReconnectDelayNoCap(n, j) ==
    Max(0, base_reconnect_delay * Pow2(n - 1) * (1000 + j))

\* The delay slept before reconnect attempt n, in milliseconds, for a jitter
\* draw of j thousandths: min(base * 2^(n-1), cap), plus jitter * delay, and
\* not below 0.
ReconnectDelay(n, j) ==
    LET delay == Min(base_reconnect_delay * Pow2(n - 1), max_reconnect_delay)
    IN  Max(0, delay * (1000 + j))

\* A socket session.ws_connect returned: closed locally or not, the peer up
\* or gone (server close, I/O error), the frames written to it, the frames
\* received and not yet read, the request ids the server has answered, and
\* the keep-alive acks the listener has skipped.
NewSocket ==
    [closed |-> FALSE, peer |-> "up", frames |-> <<>>, inbox |-> <<>>, answered |-> {},
     skipped |-> 0]

\* A frame written to the socket: its action, request id and path, and the
\* fields of its data (none for the frames that carry no device fields).
Frame(a, r, path) == [a |-> a, r |-> r, p |-> path, d |-> {}]

\* self.ws.send_str succeeds: self.ws is a socket, open, with its peer up.
CanSend(c, ss) == c.ws # 0 /\ ~ss[c.ws].closed /\ ss[c.ws].peer = "up"

WriteFrame(ss, s, f) == [ss EXCEPT ![s].frames = Append(@, f)]

CloseSocket(ss, s) == IF s = 0 THEN ss ELSE [ss EXCEPT ![s].closed = TRUE]

\* The distinct zone ids of the devices, as a sequence.
RECURSIVE SeqOfSet(_)
SeqOfSet(S) ==
    IF S = {} THEN <<>>
    ELSE LET x == CHOOSE y \in S : TRUE IN <<x>> \o SeqOfSet(S \ {x})

ZoneIds(devs) == {devs[i].zone_id : i \in DOMAIN devs} \ {NoneV}

WithSerial(devs) == SelectSeq(devs, LAMBDA d : d.serialNumber # NoneV)

ZonePaths(devs) ==
    LET zs == SeqOfSet(ZoneIds(devs))
    IN  [i \in DOMAIN zs |-> "/zones/" \o zs[i] \o "/data"]

DevicePaths(devs) ==
    LET ds == WithSerial(devs)
    IN  [i \in DOMAIN ds |-> "/devices/" \o ds[i].serialNumber]

Tag(a, paths) == [i \in DOMAIN paths |-> [a |-> a, p |-> paths[i]]]

\* _subscribe_to_devices: the devices of the first entry of hass.data that
\* has a "devices" key, whichever account it belongs to (none: no devices).
FirstEntryDevices(e) ==
    IF e.other.stored THEN e.other.devices
    ELSE IF e.stored THEN e.devices
    ELSE <<>>

\* _subscribe_to_devices: the frames it sets out to send, read from
\* hass.data: a get per zone, a get per device, then a subscribe per zone and
\* a subscribe per device; none when no entry with devices is stored.
SubscribePlan(e) ==
    LET devices == FirstEntryDevices(e)
    IN  IF devices = <<>>
        THEN <<>>
        ELSE Tag("g", ZonePaths(devices)) \o Tag("g", DevicePaths(devices))
                \o Tag("q", ZonePaths(devices)) \o Tag("q", DevicePaths(devices))

\* _connect up to its ws_connect: a session is created when there is none or
\* it is closed.
BeginConnect(c, owner) ==
    [c EXCEPT !.session = "open",
              !.chain = [NoChain EXCEPT !.pc = "open", !.owner = owner]]

\* The coroutine leaves _connect / _schedule_reconnect.
EndChain(c) == [c EXCEPT !.chain = NoChain]

\* _schedule_reconnect without the test of max_reconnect_attempts.
ScheduleReconnectNoLimit(c, j) ==
    IF ~c.running
    THEN EndChain(c)
    ELSE [c EXCEPT !.attempts = @ + 1,
                   !.chain.pc = "sleep",
                   !.chain.plan = <<>>,
                   !.chain.idx = 0,
                   !.chain.delay = ReconnectDelay(c.attempts + 1, j)]

\* _schedule_reconnect up to its sleep: give up when not running or out of
\* attempts, else count the attempt and sleep the computed delay.
ScheduleReconnect(c, j) ==
    IF ~c.running \/ c.attempts >= max_reconnect_attempts
    THEN EndChain(c)
    ELSE [c EXCEPT !.attempts = @ + 1,
                   !.chain.pc = "sleep",
                   !.chain.plan = <<>>,
                   !.chain.idx = 0,
                   !.chain.delay = ReconnectDelay(c.attempts + 1, j)]

\* _handshake_and_auth is over (its exceptions are swallowed) and
\* _subscribe_to_devices reads its plan; with nothing to send the tasks are
\* started next.
EnterSubscribe(c, e) ==
    LET plan == SubscribePlan(e)
    IN  IF plan = <<>>
        THEN [c EXCEPT !.chain.pc = "start"]
        ELSE [c EXCEPT !.chain.pc = "subscribe", !.chain.plan = plan, !.chain.idx = 1]

\* Cancelling self._keepalive_task: a task that is set and not done is
\* cancelled and the attribute set to None.
CancelKeepalive(c) == IF c.kaTask = "running" THEN [c EXCEPT !.kaTask = "none"] ELSE c

\* connect(): running = True, then _connect.
Connect(c, owner) == BeginConnect([c EXCEPT !.running = TRUE], owner)

\* disconnect() without the close of the session.
DisconnectKeepsSession(c) == [CancelKeepalive(c) EXCEPT !.running = FALSE]

\* disconnect(): running = False, the keep-alive task cancelled, the socket
\* and the session closed.
Disconnect(c) ==
    [CancelKeepalive(c) EXCEPT !.running = FALSE,
                               !.session = IF c.session = "open" THEN "closed" ELSE @]

DisconnectSockets(c, ss) ==
    IF c.ws # 0 /\ ~ss[c.ws].closed THEN CloseSocket(ss, c.ws) ELSE ss

(***************************************************************************)
(* ws.py: _handle_message                                                  *)
(***************************************************************************)

\* A frame without "r".
NoRid == 0

\* A path string: whether it begins with "/", and its segments.
Path(lead, segs) == [lead |-> lead, segs |-> segs]

\* b without "p".
NoPath == Path(FALSE, <<>>)

\* b["d"]: absent, flat fields, a snapshot nested under "data", or a bare
\* number.
NoData == [kind |-> "absent", v |-> NoneV]

Number(v) == [kind |-> "number", v |-> v]

Flat(v) == [kind |-> "flat", v |-> v]

Snapshot(v) == [kind |-> "snapshot", v |-> v]

\* A parsed text frame {"t": t, "d": {"r": r, "a": a, "b": {"a": ba, "p": p,
\* "d": d}}}; hasB tells whether the body has "b".  A text that is no such
\* frame has, as t, what is wrong with it.
Inbound(t, r, a, hasB, ba, p, d) ==
    [t |-> t, r |-> r, a |-> a, hasB |-> hasB, ba |-> ba, p |-> p, d |-> d]

\* Texts json.loads rejects, texts that parse to something other than an
\* object (payload.get raises), and frames whose "d" is no object ("r" in
\* body raises).
Unparsable == {"invalid-json", "not-object", "bad-body"}

BadText(what) == Inbound(what, 0, NoneV, FALSE, NoneV, NoPath, NoData)

\* The text "0", the server's keep-alive ack (json.loads gives the number 0,
\* on which payload.get raises).
KeepaliveAck == BadText("0")

\* A listener that passes every text on.
NeverKeepaliveAck(m) == FALSE

\* _listen: msg.data.strip() == "0".
IsKeepaliveAck(m) == m.t = "0"

\* The server's answer to the request r.
Response(r) == Inbound("d", r, NoneV, TRUE, NoneV, NoPath, NoData)

\* path.startswith(word + "/")
StartsWith(p, word) == ~p.lead /\ Len(p.segs) >= 2 /\ p.segs[1] = word

\* "/data" in path
HasDataSegment(p) ==
    \E i \in DOMAIN p.segs : p.segs[i] = "data" /\ (i > 1 \/ p.lead)

\* path.split("/")[1]
SecondPart(p) == IF p.lead THEN p.segs[1] ELSE p.segs[2]

Publish(key, payload) == [key |-> key, payload |-> payload]

\* The zone branch: one dispatcher send per device whose zone_id is the
\* path's zone and whose id is set, each with the whole of b["d"].
ZonePublishes(devs, zone, updates) ==
    LET hit == SelectSeq(devs, LAMBDA d : d.zone_id = zone /\ d.id # NoneV)
    IN  [i \in DOMAIN hit |-> Publish(hit[i].id, updates)]

\* A lookup that falls back on the first device of the directory.
DeviceUuidAny(devs, serial) ==
    LET hit == SelectSeq(devs, LAMBDA d : d.serialNumber = serial)
    IN  IF hit # <<>> THEN hit[1].id
        ELSE IF devs # <<>> THEN devs[1].id ELSE NoneV

\* The device branch: the id of the first device with that serial number.
DeviceUuid(devs, serial) ==
    LET hit == SelectSeq(devs, LAMBDA d : d.serialNumber = serial)
    IN  IF hit = <<>> THEN NoneV ELSE hit[1].id

DevicePublishes(devs, p, updates) ==
    LET uuid == DeviceUuid(devs, SecondPart(p))
    IN  IF uuid = NoneV THEN <<>>
        ELSE IF updates.kind = "number" THEN <<>>
        ELSE IF updates.kind = "snapshot" THEN <<Publish(uuid, Flat(updates.v))>>
        ELSE IF HasDataSegment(p) THEN <<Publish(uuid, updates)>>
        ELSE <<>>

\* The data-update branch of _handle_message: taken when b has "p" and "d"
\* and b.get("a") is "d" or "m".
DataPublishes(m, devs) ==
    IF m.p # NoPath /\ m.d # NoData /\ m.ba \in {"d", "m"}
    THEN IF StartsWith(m.p, "zones") /\ HasDataSegment(m.p)
         THEN ZonePublishes(devs, SecondPart(m.p), m.d)
         ELSE IF StartsWith(m.p, "devices")
              THEN DevicePublishes(devs, m.p, m.d)
              ELSE <<>>
    ELSE <<>>

\* The data-update branch raises: "data" in updates, with updates a number,
\* once the serial was found.
DataRaises(m, devs) ==
    /\ m.p # NoPath /\ m.d # NoData /\ m.ba \in {"d", "m"}
    /\ ~(StartsWith(m.p, "zones") /\ HasDataSegment(m.p))
    /\ StartsWith(m.p, "devices")
    /\ DeviceUuid(devs, SecondPart(m.p)) # NoneV
    /\ m.d.kind = "number"

Tried(pending, resolved, pubs, raised) ==
    [pending |-> pending, resolved |-> resolved, pubs |-> pubs, raised |-> raised]

\* The try block of _handle_message: what it leaves of the pending map, the
\* request it resolved (NoRid: none), the dispatcher sends it made and
\* whether it raised.
HandleMessageTry(m, pending, devs) ==
    IF m.t \in Unparsable \/ m = KeepaliveAck
    THEN Tried(pending, NoRid, <<>>, TRUE)
    ELSE IF m.t # "d"
    THEN Tried(pending, NoRid, <<>>, FALSE)
    ELSE IF m.r # NoRid /\ m.r \in pending
    THEN Tried(pending \ {m.r}, m.r, <<>>, FALSE)
    ELSE IF ~m.hasB
    THEN Tried(pending, NoRid, <<>>, FALSE)
    ELSE Tried(pending, NoRid, DataPublishes(m, devs), DataRaises(m, devs))

Handled(o, logged, escaped) ==
    [pending |-> o.pending, resolved |-> o.resolved, pubs |-> o.pubs,
     logged |-> logged, escaped |-> escaped]

\* _handle_message without its except clause.
HandleMessageUncaught(m, pending, devs) ==
    LET o == HandleMessageTry(m, pending, devs)
    IN  Handled(o, FALSE, o.raised)

\* _handle_message going on to the data branch after resolving a request.
HandleMessageRoutesOn(m, pending, devs) ==
    LET o == HandleMessageTry(m, pending, devs)
    IN  IF o.resolved # NoRid /\ m.hasB
        THEN Handled([o EXCEPT !.pubs = DataPublishes(m, devs)], FALSE, FALSE)
        ELSE Handled(o, o.raised, FALSE)

\* _handle_message: an exception of the try block is logged, none leaves.
HandleMessage(m, pending, devs) ==
    LET o == HandleMessageTry(m, pending, devs)
    IN  Handled(o, o.raised, FALSE)

\* The devices of the entries of hass.data["rointe"], in the order of the
\* dict.
StoredDevices(e) ==
    (IF e.other.stored THEN e.other.devices ELSE <<>>)
        \o (IF e.stored THEN e.devices ELSE <<>>)

(***************************************************************************)
(* __init__.py: async_setup_entry / async_unload_entry                     *)
(***************************************************************************)

\* The HTTP exchanges the setup's login and sign-in POSTs are answered with:
\* a full body, an empty body, a body whose expires_in is no number, a 401.
SetupResponses ==
    { Body("T1", "R1", "U1", ExpInt(3600)),
      Body(NoneV, NoneV, NoneV, ExpAbsent),
      Body("T2", "R1", "U1", ExpBad),
      Failure(401) }

\* After async_login_rest: any outcome carries on to the Firebase sign-in.
AfterRestLoginSwallow(out) == "fb_login"

\* After async_login_rest: RointeRestAuthError aborts the setup.
AfterRestLogin(out) == IF out = "ok" THEN "fb_login" ELSE "aborted"

\* is_firebase_token_valid without its expiry tests.
FirebaseTokenValidNoExpiry(f, t) == f.idToken # NoneV

\* auth.is_firebase_token_valid()
FirebaseTokenValid(f, t) == TokenValid(f.idToken, f.expiry, t)

\* async_setup_entry from the end of the Firebase sign-in (fbOut: how it
\* ended, f: the Firebase fields it left) to its next await: with a valid
\* Firebase token the client is created and connect() awaited, else device
\* discovery is awaited without a client.
AfterFirebase(st, fbOut, f) ==
    /\ IF FirebaseTokenValid(f, now)
       THEN /\ setup' = [st EXCEPT !.fbOut = fbOut, !.wsObj = TRUE, !.pc = "ws_connect"]
            /\ cl' = Connect(cl, "setup")
       ELSE /\ setup' = [st EXCEPT !.fbOut = fbOut, !.pc = "discover"]
            /\ cl' = cl
    /\ UNCHANGED <<socks, entry>>

\* async_setup_entry up to the login POST; missing credentials abort it.
SetupStart ==
    /\ setup.pc = "init"
    /\ IF setup.creds
       THEN setup' = [setup EXCEPT !.pc = "rest_login"]
       ELSE setup' = [setup EXCEPT !.pc = "aborted", !.result = "NotReady:credentials"]
    /\ UNCHANGED <<authVars, entry, wsVars>>

\* await auth.async_login_rest() completes: on RointeRestAuthError the setup
\* raises ConfigEntryNotReady; else async_login_firebase runs up to its POST
\* (without a user id it raises at once, which is caught and logged).
SetupRestLogin ==
    /\ setup.pc = "rest_login"
    /\ \E r \in SetupResponses :
         LET o == AsyncLoginRest(rest, r, now)
             st == [setup EXCEPT !.restOut = IF o.out = "ok" THEN "ok" ELSE "failed"]
         IN  /\ rest' = o.st
             /\ IF AfterRestLogin(o.out) = "aborted"
                THEN /\ setup' = [st EXCEPT !.pc = "aborted", !.result = "NotReady:rest"]
                     /\ UNCHANGED <<entry, wsVars>>
                ELSE IF o.st.userId = NoneV
                     THEN AfterFirebase(st, "failed", fb)
                     ELSE /\ setup' = [st EXCEPT !.pc = "fb_login"]
                          /\ UNCHANGED <<entry, wsVars>>
    /\ UNCHANGED <<now, fb, call, last, ncalls>>

\* await auth.async_login_firebase() completes; RointeFirebaseAuthError is
\* caught and logged.
SetupFirebaseLogin ==
    /\ setup.pc = "fb_login"
    /\ \E r \in SetupResponses :
         LET o == AsyncLoginFirebase(fb, r, now)
         IN  /\ fb' = o.st
             /\ AfterFirebase(setup, IF o.out = "ok" THEN "ok" ELSE "failed", o.st)
    /\ UNCHANGED <<now, rest, call, last, ncalls>>

\* await api.list_devices() completes (its errors give no devices); the
\* entry data is stored in hass.data and the platforms are forwarded.
SetupDiscover ==
    /\ setup.pc = "discover"
    /\ \E devs \in Directories :
         entry' = [entry EXCEPT !.stored = TRUE, !.devices = devs,
                                !.ws = setup.wsObj]
    /\ setup' = [setup EXCEPT !.pc = "forward", !.discovered = TRUE]
    /\ UNCHANGED <<authVars, wsVars>>

\* async_forward_entry_setups returns: the setup returns True.
SetupForwardOk ==
    /\ setup.pc = "forward"
    /\ setup' = [setup EXCEPT !.pc = "done", !.result = "True"]
    /\ UNCHANGED <<authVars, entry, wsVars>>

\* async_forward_entry_setups raises: ConfigEntryNotReady("Setup failed").
SetupForwardRaises ==
    /\ setup.pc = "forward"
    /\ setup' = [setup EXCEPT !.pc = "aborted", !.result = "NotReady:forward"]
    /\ UNCHANGED <<authVars, entry, wsVars>>

\* async_unload_entry with the platforms unloaded: the entry data is popped
\* and its client, if any, disconnected.
Unload ==
    /\ setup.pc = "done"
    /\ setup' = [setup EXCEPT !.pc = "unloaded"]
    /\ entry' = [NoEntry EXCEPT !.other = entry.other]
    /\ IF entry.ws
       THEN cl' = Disconnect(cl) /\ socks' = DisconnectSockets(cl, socks)
       ELSE UNCHANGED <<cl, socks>>
    /\ UNCHANGED authVars

(***************************************************************************)
(* config_flow.py: RointeConfigFlow (SpecFlow)                             *)
(***************************************************************************)

\* Submissions of the user form in a run.
MaxSubmits == 2

\* The user input as async_step_user sees it: whether the stripped,
\* lower-cased email matches the pattern, whether the password has 6
\* characters.
FlowInputs == [email : {"ok", "malformed"}, password : {"ok", "short"}]

FlowAnswer(status, what) == [status |-> status, what |-> what]

\* The answers to the signInWithPassword POST: 200 with or without a
\* refreshToken, 400 with an error message, 429, 5xx, another status, and,
\* as 0, aiohttp.ClientError.
FlowAnswers ==
    { FlowAnswer(200, "refreshToken"), FlowAnswer(200, "no refreshToken"),
      FlowAnswer(400, "INVALID_EMAIL"), FlowAnswer(400, "EMAIL_NOT_FOUND"),
      FlowAnswer(400, "INVALID_PASSWORD"), FlowAnswer(400, "USER_DISABLED"),
      FlowAnswer(400, "TOO_MANY_ATTEMPTS_TRY_LATER"), FlowAnswer(400, "OTHER"),
      FlowAnswer(429, ""), FlowAnswer(500, ""), FlowAnswer(403, ""),
      FlowAnswer(0, "") }

\* _async_login: "refresh_token" when it returns one, else the exception.
AsyncLogin(a) ==
    IF a.status = 200
    THEN IF a.what = "refreshToken" THEN "refresh_token" ELSE "InvalidAuth"
    ELSE IF a.status = 400
    THEN IF a.what \in {"INVALID_EMAIL", "EMAIL_NOT_FOUND",
                        "INVALID_PASSWORD"}
         THEN "InvalidCredentials"
         ELSE "InvalidAuth"
    ELSE IF a.status = 429 THEN "InvalidAuth"
    ELSE "CannotConnect"

\* The entry data async_create_entry is given.
CreatedData == {"refresh_token", "email"}

\* async_step_user on an input and the answer its login gets: the errors of
\* the form shown again, or the entry created.
StepUser(in, a) ==
    LET form(errors) == [errors |-> errors, created |-> FALSE, data |-> {}]
        out == AsyncLogin(a)
    IN  IF in.email = "malformed"
        THEN form({<<"email", "invalid_email_format">>})
        ELSE IF in.password = "short"
        THEN form({<<"password", "password_too_short">>})
        ELSE IF out = "refresh_token"
        THEN [errors |-> {}, created |-> TRUE, data |-> CreatedData]
        ELSE IF out = "InvalidCredentials"
        THEN form({<<"email", "invalid_credentials">>,
                   <<"password", "invalid_credentials">>})
        ELSE IF out = "InvalidAuth"
        THEN form({<<"base", "invalid_auth">>})
        ELSE form({<<"base", "cannot_connect">>})

\* entry.data.get("email") and entry.data.get("password") are both set.
HasCredentials(data) == {"email", "password"} \subseteq data

\* The user submits the form; a created entry is then set up.
FlowSubmit ==
    /\ setup.pc = "flow"
    /\ Len(setup.flow) < MaxSubmits
    /\ \E in \in FlowInputs, a \in FlowAnswers :
         LET o == StepUser(in, a)
             sub == [in |-> in, answer |-> a, errors |-> o.errors,
                     created |-> o.created, data |-> o.data]
         IN  setup' = [setup EXCEPT !.flow = Append(@, sub),
                                    !.pc = IF o.created THEN "init" ELSE "flow",
                                    !.creds = IF o.created THEN HasCredentials(o.data)
                                              ELSE @]
    /\ UNCHANGED <<authVars, entry, wsVars>>

(***************************************************************************)
(* ws.py: the connection coroutine, the tasks and the peer                 *)
(***************************************************************************)

\* The setup awaits connect(): it resumes, up to its await of list_devices,
\* when the coroutine it awaits leaves _connect.
SetupResumes(c0, c1) ==
    IF c0.chain.owner = "setup" /\ c1.chain.pc = "none"
    THEN setup' = [setup EXCEPT !.pc = "discover"]
    ELSE setup' = setup

\* session.ws_connect returns a socket, the run having opened fewer than n:
\* the attempts are reset, _rid is reset when it is 100 ("only on the first
\* connection"), and the Firebase token is awaited.
WsConnectOkUpTo(n) ==
    /\ cl.chain.pc = "open"
    /\ cl.session = "open"
    /\ Len(socks) < n
    /\ socks' = Append(socks, NewSocket)
    /\ cl' = [cl EXCEPT !.ws = Len(socks) + 1,
                        !.attempts = 0,
                        !.rid = IF @ = InitialRid THEN 0 ELSE @,
                        !.logged = "none",
                        !.chain.pc = "token"]
    /\ UNCHANGED <<authVars, setupVars>>

WsConnectOk == WsConnectOkUpTo(MaxSockets)

\* session.ws_connect raises: _schedule_reconnect.
WsConnectFails ==
    /\ cl.chain.pc = "open"
    /\ \E j \in JitterPermille : cl' = ScheduleReconnect(cl, j)
    /\ SetupResumes(cl, cl')
    /\ UNCHANGED <<authVars, entry, socks>>

\* asyncio.sleep(delay) is over: _connect.
SleepDone ==
    /\ cl.chain.pc = "sleep"
    /\ cl' = BeginConnect(cl, cl.chain.owner)
    /\ UNCHANGED <<authVars, setupVars, socks>>

\* auth.async_firebase_token() returns a token.
TokenOk ==
    /\ cl.chain.pc = "token"
    /\ cl' = [cl EXCEPT !.chain.pc = "handshake"]
    /\ UNCHANGED <<authVars, setupVars, socks>>

\* auth.async_firebase_token() raises: logged, and the subscription goes on.
TokenFails ==
    /\ cl.chain.pc = "token"
    /\ cl' = EnterSubscribe([cl EXCEPT !.logged = "token"], entry)
    /\ UNCHANGED <<authVars, setupVars, socks>>

\* The handshake frame is sent with the next request id; a send that raises
\* is logged and ends _handshake_and_auth.
SendHandshake ==
    /\ cl.chain.pc = "handshake"
    /\ IF CanSend(cl, socks)
       THEN /\ socks' = WriteFrame(socks, cl.ws, Frame("s", cl.rid + 1, ""))
            /\ cl' = [cl EXCEPT !.rid = @ + 1, !.chain.pc = "auth"]
       ELSE /\ socks' = socks
            /\ cl' = EnterSubscribe([cl EXCEPT !.rid = @ + 1, !.logged = "handshake"], entry)
    /\ UNCHANGED <<authVars, setupVars>>

\* The auth frame is sent with the next request id.
SendAuth ==
    /\ cl.chain.pc = "auth"
    /\ IF CanSend(cl, socks)
       THEN /\ socks' = WriteFrame(socks, cl.ws, Frame("auth", cl.rid + 1, ""))
            /\ cl' = EnterSubscribe([cl EXCEPT !.rid = @ + 1], entry)
       ELSE /\ socks' = socks
            /\ cl' = EnterSubscribe([cl EXCEPT !.rid = @ + 1, !.logged = "auth"], entry)
    /\ UNCHANGED <<authVars, setupVars>>

\* The next frame of the subscription is sent: a get registers its request
\* id as pending before the send and then waits for the response; a send that
\* raises is logged and ends _subscribe_to_devices.
SubscribeSend ==
    /\ cl.chain.pc = "subscribe"
    /\ LET f == cl.chain.plan[cl.chain.idx]
           r == cl.rid + 1
           c1 == [cl EXCEPT !.rid = r,
                            !.pending = IF f.a = "g" THEN @ \cup {r} ELSE @]
       IN  IF CanSend(cl, socks)
           THEN /\ socks' = WriteFrame(socks, cl.ws, Frame(f.a, r, f.p))
                /\ cl' = IF f.a = "g"
                         THEN [c1 EXCEPT !.chain.pc = "wait", !.chain.req = r]
                         ELSE IF cl.chain.idx = Len(cl.chain.plan)
                              THEN [c1 EXCEPT !.chain.pc = "start"]
                              ELSE [c1 EXCEPT !.chain.idx = @ + 1]
           ELSE /\ socks' = socks
                /\ cl' = [c1 EXCEPT !.logged = "subscribe", !.chain.pc = "start"]
    /\ UNCHANGED <<authVars, setupVars>>

\* asyncio.wait_for times out: the pending entry is dropped and the
\* subscription goes on.
WaitTimeout ==
    /\ cl.chain.pc = "wait"
    /\ cl' = [cl EXCEPT !.pending = @ \ {cl.chain.req},
                        !.waited = "timeout",
                        !.chain.pc = "subscribe",
                        !.chain.idx = @ + 1]
    /\ UNCHANGED <<authVars, setupVars, socks>>

\* The server answers a get request it received and has not answered yet.
ServerResponds ==
    /\ \E s \in DOMAIN socks :
         /\ ~socks[s].closed
         /\ socks[s].peer = "up"
         /\ \E i \in DOMAIN socks[s].frames :
              LET f == socks[s].frames[i]
              IN  /\ f.a = "g"
                  /\ f.r \notin socks[s].answered
                  /\ socks' = [socks EXCEPT ![s].inbox = Append(@, Response(f.r)),
                                            ![s].answered = @ \cup {f.r}]
    /\ UNCHANGED <<authVars, setupVars, cl>>

\* _handle_disconnection: the keep-alive task is cancelled, self.ws closed
\* and set to None and, when running, _schedule_reconnect entered.
HandleDisconnection(c, j) ==
    LET c1 == [CancelKeepalive(c) EXCEPT !.ws = 0, !.listener = 0]
    IN  IF c1.running
        THEN ScheduleReconnect([c1 EXCEPT !.chain.owner = "listener"], j)
        ELSE c1

\* The listener task reads the next text frame, skips a keep-alive ack and
\* runs _handle_message on any other; a frame that resolves the request
\* _send_and_wait is waiting on makes it return the response.  An exception
\* leaving _handle_message would end the read loop: "Listener crashed", then
\* _handle_disconnection.
ListenerReads ==
    /\ cl.listener # 0
    /\ ~socks[cl.listener].closed
    /\ socks[cl.listener].inbox # <<>>
    /\ LET m == Head(socks[cl.listener].inbox)
           h == HandleMessage(m, cl.pending, StoredDevices(entry))
           c1 == [cl EXCEPT !.pending = h.pending,
                            !.pubs = @ \o h.pubs,
                            !.handled = Append(@, [m |-> m, resolved |-> h.resolved,
                                                   logged |-> h.logged])]
           read == [socks EXCEPT ![cl.listener].inbox = Tail(@)]
       IN  IF IsKeepaliveAck(m)
           THEN /\ socks' = [read EXCEPT ![cl.listener].skipped = @ + 1]
                /\ cl' = cl
           ELSE IF h.escaped
           THEN /\ socks' = CloseSocket(CloseSocket(read, cl.listener), cl.ws)
                /\ \E j \in JitterPermille : cl' = HandleDisconnection(c1, j)
           ELSE /\ socks' = read
                /\ cl' = IF cl.chain.pc = "wait" /\ h.resolved = cl.chain.req
                          THEN [c1 EXCEPT !.waited = "response",
                                          !.chain.pc = "subscribe",
                                          !.chain.idx = @ + 1]
                          ELSE c1
    /\ UNCHANGED <<authVars, setupVars>>

\* _connect overwrites _keepalive_task and drops the handle of the listener
\* task it creates: tasks of an earlier _connect that still run go on.
Strayed(c) ==
    [listeners |-> c.strays.listeners \cup (IF c.listener # 0 THEN {c.listener} ELSE {}),
     keepalives |-> c.strays.keepalives + (IF c.kaTask = "running" THEN 1 ELSE 0)]

\* The keep-alive task and the listener task are created; _connect returns.
StartTasks ==
    /\ cl.chain.pc = "start"
    /\ cl' = EndChain([cl EXCEPT !.kaTask = "running", !.listener = cl.ws,
                                 !.strays = Strayed(cl)])
    /\ SetupResumes(cl, cl')
    /\ UNCHANGED <<authVars, entry, socks>>

\* The keep-alive loop's test.
KeepaliveGoesOn == cl.running /\ cl.ws # 0 /\ ~socks[cl.ws].closed

\* The keep-alive task wakes and sends "0"; a send that raises ends the task.
KeepalivePing ==
    /\ cl.kaTask = "running"
    /\ KeepaliveGoesOn
    /\ IF CanSend(cl, socks)
       THEN /\ cl.pings < MaxPings
            /\ socks' = WriteFrame(socks, cl.ws, Frame("0", 0, ""))
            /\ cl' = [cl EXCEPT !.pings = @ + 1]
       ELSE /\ socks' = socks
            /\ cl' = [cl EXCEPT !.kaTask = "done"]
    /\ UNCHANGED <<authVars, setupVars>>

\* The keep-alive loop ends: not running, or no open socket.
KeepaliveExit ==
    /\ cl.kaTask = "running"
    /\ ~KeepaliveGoesOn
    /\ cl' = [cl EXCEPT !.kaTask = "done"]
    /\ UNCHANGED <<authVars, setupVars, socks>>

\* The server closes the socket, or the transport fails.
PeerGone ==
    /\ \E s \in DOMAIN socks :
         /\ socks[s].peer = "up"
         /\ ~socks[s].closed
         /\ socks' = [socks EXCEPT ![s].peer = "gone"]
    /\ UNCHANGED <<authVars, setupVars, cl>>

\* The listener's read loop ends on a closed socket: _handle_disconnection
\* cancels the keep-alive task, closes self.ws, sets it to None and, when
\* running, runs _schedule_reconnect.
ListenerEnds ==
    /\ cl.listener # 0
    /\ socks[cl.listener].closed \/ socks[cl.listener].peer = "gone"
    /\ socks' = CloseSocket(CloseSocket(socks, cl.listener), cl.ws)
    /\ \E j \in JitterPermille : cl' = HandleDisconnection(cl, j)
    /\ UNCHANGED <<authVars, setupVars>>

\* send(): the serial number of the device with that id.
DeviceSerial(devs, device_id) ==
    LET hit == SelectSeq(devs, LAMBDA d : d.id = device_id)
    IN  IF hit = <<>> THEN NoneV ELSE hit[1].serialNumber

\* The field send() adds to the updates: the current time in milliseconds.
TimestampField == "last_sync_datetime_device"

\* The keys list_devices stores for a device (the cached REST metadata).
CachedFields == {"id", "name", "zone", "serialNumber"}

\* The updates merged into the cached device record.
CommandFieldsMerged(updates) == updates \cup {TimestampField} \cup CachedFields

\* The data of the command frame: the caller's updates and the timestamp.
CommandFields(updates) == updates \cup {TimestampField}

CommandFrame(r, serial, updates) ==
    [a |-> "m", r |-> r, p |-> "/devices/" \o serial \o "/data",
     d |-> CommandFields(updates)]

Sent(c, ss, outcome) == [cl |-> c, socks |-> ss, outcome |-> outcome, ret |-> NoneV]

\* send(zone_id, device_id, updates): what it leaves of the client and the
\* sockets, how it ended and what it returned (every path returns None).
Send(c, ss, devs, zone_id, device_id, updates) ==
    IF c.ws = 0 \/ ss[c.ws].closed
    THEN Sent(c, ss, "not_connected")
    ELSE LET serial == DeviceSerial(devs, device_id)
             c1 == [c EXCEPT !.rid = @ + 1]
         IN  IF serial = NoneV
             THEN Sent(c, ss, "no_serial")
             ELSE IF CanSend(c, ss)
             THEN Sent(c1, WriteFrame(ss, c.ws, CommandFrame(c1.rid, serial, updates)),
                       "sent")
             ELSE Sent(c1, ss, "send_error")

\* A call of send with the positional arguments args: the method takes three
\* (zone_id, device_id, updates); any other number raises TypeError before
\* the body runs.
CallSend(c, ss, devs, args) ==
    IF Len(args) # 3
    THEN [cl |-> c, socks |-> ss, outcome |-> "TypeError", ret |-> NoneV]
    ELSE Send(c, ss, devs, args[1], args[2], args[3])

\* The commands of the entities: the method, the updates it builds, whether
\* it passes the zone id to send, and what it does with an exception
\* (set_temperature has no try; set_hvac_mode and set_preset_mode raise
\* RointeDeviceError; the switch logs).
EntityCommands ==
    { [entity |-> "climate", method |-> "async_set_temperature",
       updates |-> {"temp"}, zoneArg |-> FALSE, onError |-> "propagates"],
      [entity |-> "climate", method |-> "async_set_hvac_mode",
       updates |-> {"status", "power"}, zoneArg |-> FALSE, onError |-> "RointeDeviceError"],
      [entity |-> "climate", method |-> "async_set_preset_mode",
       updates |-> {"status", "power"}, zoneArg |-> FALSE, onError |-> "RointeDeviceError"],
      [entity |-> "switch", method |-> "async_turn_on",
       updates |-> {"mode", "power"}, zoneArg |-> TRUE, onError |-> "logged"],
      [entity |-> "switch", method |-> "async_turn_off",
       updates |-> {"mode"}, zoneArg |-> TRUE, onError |-> "logged"] }

\* Home Assistant calls a command method of the entity of a stored device;
\* the method builds its updates and calls self.ws.send.
EntityCommand ==
    /\ entry.stored
    /\ Len(cl.cmds) < MaxCmds
    /\ \E k \in EntityCommands, i \in DOMAIN entry.devices :
         LET dev == entry.devices[i]
             args == IF k.zoneArg THEN <<dev.zone_id, dev.id, k.updates>>
                                  ELSE <<dev.id, k.updates>>
             s == CallSend(cl, socks, StoredDevices(entry), args)
             done == [method |-> k.method, device |-> dev.id, updates |-> k.updates,
                      connected |-> CanSend(cl, socks),
                      calls |-> IF s.outcome = "TypeError" THEN 0 ELSE 1,
                      outcome |-> s.outcome, ret |-> s.ret,
                      raised |-> IF s.outcome # "TypeError" \/ k.onError = "logged"
                                 THEN "none"
                                 ELSE IF k.onError = "propagates" THEN "TypeError"
                                 ELSE k.onError,
                      sock |-> cl.ws,
                      frames |-> IF cl.ws = 0 THEN 0
                                 ELSE Len(s.socks[cl.ws].frames) - Len(socks[cl.ws].frames)]
         IN  /\ cl' = [s.cl EXCEPT !.cmds = Append(@, done)]
             /\ socks' = s.socks
    /\ UNCHANGED <<authVars, setupVars>>

\* send() is called n times in a row for a device of the directory, with a
\* socket that is set and not closed: each call takes the next request id
\* and writes a merge frame to /devices/{serial}/data; a send_str that
\* raises is logged, the id being spent.
SendCommands(n) ==
    /\ cl.bursts < MaxBursts
    /\ cl.ws # 0
    /\ ~socks[cl.ws].closed
    /\ \E i \in DOMAIN StoredDevices(entry) :
         LET serial == DeviceSerial(StoredDevices(entry), StoredDevices(entry)[i].id)
         IN  /\ serial # NoneV
             /\ socks' = IF CanSend(cl, socks)
                         THEN [socks EXCEPT ![cl.ws].frames =
                                   @ \o [k \in 1..n |->
                                            CommandFrame(cl.rid + k, serial, {"power"})]]
                         ELSE socks
    /\ cl' = [cl EXCEPT !.rid = @ + n, !.bursts = @ + 1]
    /\ UNCHANGED <<authVars, setupVars>>

SendCommandBurst == \E n \in CommandBursts : SendCommands(n)

InitSpec ==
    /\ InitAuthFields
    /\ InitWsFields
    /\ entry = NoEntry
    /\ \E creds \in BOOLEAN : setup = InitSetup(creds)

Next ==
    \/ SetupStart
    \/ SetupRestLogin
    \/ SetupFirebaseLogin
    \/ SetupDiscover
    \/ SetupForwardOk
    \/ SetupForwardRaises
    \/ Unload
    \/ WsConnectOk
    \/ WsConnectFails
    \/ SleepDone
    \/ TokenOk
    \/ TokenFails
    \/ SendHandshake
    \/ SendAuth
    \/ SubscribeSend
    \/ WaitTimeout
    \/ ServerResponds
    \/ ListenerReads
    \/ StartTasks
    \/ KeepalivePing
    \/ KeepaliveExit
    \/ PeerGone
    \/ ListenerEnds

Spec == InitSpec /\ [][Next]_vars

(***************************************************************************)
(* The client in use after a completed setup                               *)
(***************************************************************************)

\* The state a setup leaves that logged in at time 0, connected at the first
\* attempt, discovered the devices devs and returned True: the client is in
\* steady state on its first socket, on which only the handshake and the
\* auth frame were written (no device was stored when it connected).
SetupReturnedBeside(devs, other) ==
    /\ now = 0
    /\ rest = AsyncLoginRest(InitRest, Body("T1", "R1", "U1", ExpInt(3600)), 0).st
    /\ fb = AsyncLoginFirebase(InitFb, Body("T1", "R1", "U1", ExpInt(3600)), 0).st
    /\ call = [c \in Callers |-> IdleCall]
    /\ last = NoCompleted
    /\ ncalls = 0
    /\ setup = [InitSetup(TRUE) EXCEPT !.pc = "done", !.restOut = "ok", !.fbOut = "ok",
                                       !.wsObj = TRUE, !.discovered = TRUE,
                                       !.result = "True"]
    /\ entry = [NoEntry EXCEPT !.stored = TRUE, !.devices = devs, !.ws = TRUE,
                               !.other = other]

SetupReturned(devs) == SetupReturnedBeside(devs, NoOther)

SteadyClient ==
    [NewClient EXCEPT !.running = TRUE, !.ws = 1, !.session = "open",
                      !.rid = 2, !.kaTask = "running", !.listener = 1]

SteadyAfterSetup(devs) ==
    /\ SetupReturned(devs)
    /\ cl = SteadyClient

FirstSocket(inbox) ==
    [NewSocket EXCEPT !.frames = <<Frame("s", 1, ""), Frame("auth", 2, "")>>,
                      !.inbox = inbox]

InitRid ==
    /\ SteadyAfterSetup(<<DeviceA>>)
    /\ socks = <<FirstSocket(<<>>)>>

WsConnectOkRid == WsConnectOkUpTo(MaxSockets + 1)

\* The client from there on: the connection drops and is re-established,
\* while the entities call send().
NextRid ==
    \/ WsConnectOkRid
    \/ WsConnectFails
    \/ SleepDone
    \/ TokenOk
    \/ TokenFails
    \/ SendHandshake
    \/ SendAuth
    \/ SubscribeSend
    \/ WaitTimeout
    \/ ServerResponds
    \/ ListenerReads
    \/ StartTasks
    \/ KeepalivePing
    \/ PeerGone
    \/ ListenerEnds
    \/ SendCommandBurst

SpecRid == InitRid /\ [][NextRid]_vars

(***************************************************************************)
(* _handle_message on inbound frames (SpecMsg)                              *)
(***************************************************************************)

\* The /installations answers discovery was given: no zone; one zone with
\* one device; a zone with two devices and a zone whose device has no
\* serial number.
MsgZones ==
    { <<>>,
      <<RestZone("Z1", "Living", <<RestDevice("uuid-A", "SN123")>>)>>,
      <<RestZone("Z1", "Living", <<RestDevice("uuid-A", "SN123"),
                                   RestDevice("uuid-B", "SN456")>>),
        RestZone("Z2", "Bedroom", <<RestDevice("uuid-C", NoneV)>>)>> }

\* The paths a frame may carry.
MsgPaths ==
    { Path(FALSE, <<"devices", "SN123", "data">>),
      Path(FALSE, <<"devices", "SN123">>),
      Path(FALSE, <<"devices", "SN999", "data">>),
      Path(TRUE, <<"devices", "SN123", "data">>),
      Path(FALSE, <<"zones", "Z1", "data">>),
      Path(FALSE, <<"zones", "Z1">>),
      Path(FALSE, <<"zones", "Z2", "data">>) }

\* The id of a request still in the pending map: one whose send_str failed
\* on an earlier connection.
LeftPending == 7

\* A merge of temp=21 into devices/SN123/data.
FollowUp ==
    Inbound("d", NoRid, NoneV, TRUE, "m",
            Path(FALSE, <<"devices", "SN123", "data">>), Flat("temp=21"))

\* The text frames the server may push: "t" is "d" or a control type, "r"
\* is absent or LeftPending, the action letter is absent, "d" or "m" and
\* sits next to "b" (as the wire protocol puts it) or inside "b", and "b",
\* when present, has or lacks its path and its data; and the texts that are no frame.
MsgFrames ==
    { Inbound(t, r, a, hasB, ba, p, d) :
        t \in {"d", "c"}, r \in {NoRid, LeftPending}, a \in {NoneV, "d", "m"},
        hasB \in {TRUE}, ba \in {NoneV, "d", "m"},
        p \in MsgPaths \cup {NoPath},
        d \in {NoData, Flat("temp=21"), Snapshot("temp=21"), Number("21")} }
    \cup { Inbound(t, r, a, FALSE, NoneV, NoPath, NoData) :
              t \in {"d", "c"}, r \in {NoRid, LeftPending}, a \in {NoneV, "d", "m"} }
    \cup { BadText(w) : w \in Unparsable }
    \cup { KeepaliveAck }

\* What the server pushes: one frame, or a frame and then FollowUp.
MsgInboxes ==
    { <<m>> : m \in MsgFrames }
    \cup { <<m, FollowUp>> : m \in { f \in MsgFrames : f.r = NoRid /\ f.a = NoneV } }

InitMsg ==
    \E zs \in MsgZones, inbox \in MsgInboxes, pending \in {{}, {LeftPending}} :
        /\ SetupReturned(ListDevices(zs))
        /\ cl = [SteadyClient EXCEPT !.pending = pending]
        /\ socks = <<FirstSocket(inbox)>>

NextMsg == ListenerReads

SpecMsg == InitMsg /\ [][NextMsg]_vars

(***************************************************************************)
(* Entity commands (SpecCmd)                                               *)
(***************************************************************************)

\* After a completed setup with any of the directories, the entities are
\* commanded while the connection is up, lost, or dropped.
InitCmd ==
    \E zs \in MsgZones :
        /\ SetupReturned(ListDevices(zs))
        /\ cl = SteadyClient
        /\ socks = <<FirstSocket(<<>>)>>

NextCmd ==
    \/ EntityCommand
    \/ PeerGone
    \/ ListenerEnds

SpecCmd == InitCmd /\ [][NextCmd]_vars

(***************************************************************************)
(* Two accounts (SpecAcct)                                                 *)
(***************************************************************************)

\* The directory of the other account: one zone with one device.
OtherZones == <<RestZone("Z9", "Hall", <<RestDevice("uuid-X", "SN900")>>)>>

\* A merge of temp=21 into the data of a device, with the action letter
\* where _handle_message reads it.
PushFor(serial) ==
    Inbound("d", NoRid, NoneV, TRUE, "m",
            Path(FALSE, <<"devices", serial, "data">>), Flat("temp=21"))

\* The setup of this account's entry has returned, after the other
\* account's entry had stored its devices; this account's client is in
\* steady state and its socket delivers nothing, or a push for a device.
InitAcct ==
    \E zs \in MsgZones, inbox \in {<<>>, <<PushFor("SN123")>>, <<PushFor("SN900")>>} :
        /\ SetupReturnedBeside(ListDevices(zs),
                               [stored |-> TRUE, devices |-> ListDevices(OtherZones)])
        /\ cl = SteadyClient
        /\ socks = <<FirstSocket(inbox)>>

\* This account's client reads its socket, loses the connection and
\* connects again.
NextAcct ==
    \/ ListenerReads
    \/ PeerGone
    \/ ListenerEnds
    \/ SleepDone
    \/ WsConnectOk
    \/ TokenOk
    \/ SendHandshake
    \/ SendAuth
    \/ SubscribeSend
    \/ WaitTimeout
    \/ StartTasks

SpecAcct == InitAcct /\ [][NextAcct]_vars

(***************************************************************************)
(* The configuration flow and the setup of the entry it creates (SpecFlow) *)
(***************************************************************************)

InitFlow ==
    /\ InitAuthFields
    /\ InitWsFields
    /\ entry = NoEntry
    /\ setup = [InitSetup(FALSE) EXCEPT !.pc = "flow"]

NextFlow ==
    \/ FlowSubmit
    \/ SetupStart

SpecFlow == InitFlow /\ [][NextFlow]_vars

(***************************************************************************)
(* api.py: RointeAPI.list_devices on the /installations answer (SpecDir)   *)
(***************************************************************************)

\* Decoded JSON: a string, a list with its items, an object with its keys.
JsonString == [t |-> "str"]

JsonList(items) == [t |-> "list", items |-> items]

IsList(v) == v.t = "list"

IsDict(v) == v.t = "dict"

\* dict.get(key, default).
Get(v, key, default) == IF key \in DOMAIN v THEN v[key] ELSE default

\* The entries of a "devices" list: objects with an id and a serial number,
\* with an id and no serial number, with an empty id, without id; a string.
DeviceEntries ==
    { [t |-> "dict", id |-> "uuid-A", serialNumber |-> "SN1"],
      [t |-> "dict", id |-> "uuid-B"],
      [t |-> "dict", id |-> "", serialNumber |-> "SN3"],
      [t |-> "dict", serialNumber |-> "SN4"],
      JsonString }

\* Lists of at most two entries.
ListsOf(S) ==
    { JsonList(<<>>) } \cup { JsonList(<<x>>) : x \in S }
                       \cup { JsonList(<<x, y>>) : x, y \in S }

\* A zone object: with a list of devices, with "devices" that is no list,
\* without "devices"; or a string (a zone referenced by its id).
ZoneObjects(devs) ==
    { [t |-> "dict", id |-> "Z1", name |-> "Living", devices |-> d] : d \in devs }

ZoneEntries ==
    ZoneObjects({ JsonList(<<>>) } \cup { JsonList(<<x>>) : x \in DeviceEntries })
    \cup ZoneObjects({ JsonList(<<x, y>>) : x, y \in DeviceEntries \ {JsonString} })
    \cup ZoneObjects({ JsonString })
    \cup { [t |-> "dict", id |-> "Z2", name |-> "Hall"], JsonString }

\* An installation object: with a list of zones, with "zones" that is no
\* list, without "zones"; or a string.
InstallationEntries ==
    { [t |-> "dict", zones |-> z] : z \in ListsOf(ZoneEntries) \cup { JsonString } }
    \cup { [t |-> "dict"], JsonString }

\* Installations with one device list each, to put a second installation
\* beside any first.
SecondInstallations ==
    { [t |-> "dict", zones |-> JsonList(<<z>>)] : z \in ZoneEntries }
    \cup { [t |-> "dict"], JsonString }

InstallationLists ==
    { JsonList(<<>>) } \cup { JsonList(<<x>>) : x \in InstallationEntries }
    \cup { JsonList(<<x, y>>) : x \in InstallationEntries, y \in SecondInstallations }

\* What _get("/installations") returns: the list, the list under "data", an
\* object without "data", "data" that is no list, a string.
InstallationsResponses ==
    InstallationLists
    \cup { [t |-> "dict", data |-> l] : l \in InstallationLists \cup { JsonString } }
    \cup { [t |-> "dict"], JsonString }

\* A filter that keeps a device object whatever its id.
HasIdAny(device) == TRUE

\* if not device_id: None and the empty string are skipped.
HasId(device) == Get(device, "id", NoneV) \notin {NoneV, ""}

\* The loop over a zone's devices.
DevicesOfZone(zone) ==
    IF ~IsDict(zone) THEN <<>>
    ELSE LET devices_list == Get(zone, "devices", JsonList(<<>>))
         IN  IF ~IsList(devices_list) THEN <<>>
             ELSE LET kept == SelectSeq(devices_list.items,
                                        LAMBDA device : IsDict(device) /\ HasId(device))
                  IN  [i \in DOMAIN kept |->
                         DeviceInfo(RestZone(Get(zone, "id", NoneV), zone.name, <<>>),
                                    RestDevice(Get(kept[i], "id", NoneV),
                                               Get(kept[i], "serialNumber", NoneV)))]

RECURSIVE DevicesOfZones(_)
DevicesOfZones(zones) ==
    IF zones = <<>> THEN <<>>
    ELSE DevicesOfZone(Head(zones)) \o DevicesOfZones(Tail(zones))

\* The loop over an installation's zones.
DevicesOfInstallation(inst) ==
    IF ~IsDict(inst) THEN <<>>
    ELSE LET zones == Get(inst, "zones", JsonList(<<>>))
         IN  IF ~IsList(zones) THEN <<>> ELSE DevicesOfZones(zones.items)

RECURSIVE DevicesOfInstallations(_)
DevicesOfInstallations(insts) ==
    IF insts = <<>> THEN <<>>
    ELSE DevicesOfInstallation(Head(insts)) \o DevicesOfInstallations(Tail(insts))

\* list_devices after _get returned: the "data" key is unwrapped, an answer
\* that is no list raises RointeAPIError, a list is traversed.
ListDevicesFrom(response) ==
    LET installations == IF IsDict(response) /\ "data" \in DOMAIN response
                         THEN response.data ELSE response
    IN  IF ~IsList(installations)
        THEN [out |-> "raised", devices |-> <<>>]
        ELSE [out |-> "returned", devices |-> DevicesOfInstallations(installations.items)]

\* list_devices was called; async_login_rest and _get returned the response
\* or one of them raised.
ListDevicesCalled(fetched, response) ==
    [pc |-> "called", fetched |-> fetched, response |-> response,
     out |-> "none", devices |-> <<>>]

\* list_devices ends: an exception of async_login_rest or _get is re-raised.
ListDevicesEnds ==
    /\ setup.dir.pc = "called"
    /\ LET r == IF setup.dir.fetched = "ok" THEN ListDevicesFrom(setup.dir.response)
                ELSE [out |-> "raised", devices |-> <<>>]
       IN  setup' = [setup EXCEPT !.dir.pc = "done", !.dir.out = r.out,
                                  !.dir.devices = r.devices]
    /\ UNCHANGED <<authVars, entry, wsVars>>

InitDir ==
    /\ InitAuthFields
    /\ InitWsFields
    /\ entry = NoEntry
    /\ \E response \in InstallationsResponses, fetched \in {"ok", "login-raised", "get-raised"} :
         /\ fetched # "ok" => response = JsonString
         /\ setup = [InitSetup(TRUE) EXCEPT !.dir = ListDevicesCalled(fetched, response)]

NextDir == ListDevicesEnds

SpecDir == InitDir /\ [][NextDir]_vars

\* The installations of a response, "data" unwrapped.
InstallationsOf(response) ==
    IF IsDict(response) /\ "data" \in DOMAIN response THEN response.data ELSE response

\* The places <<i, j, k>> of the well-formed device entries of a list of
\* installations: entry k of the devices of zone j of installation i.
GoodPlaces(insts) ==
    { p \in (1..2) \X (1..2) \X (1..2) :
        /\ p[1] <= Len(insts)
        /\ IsDict(insts[p[1]]) /\ "zones" \in DOMAIN insts[p[1]]
        /\ IsList(insts[p[1]].zones)
        /\ p[2] <= Len(insts[p[1]].zones.items)
        /\ LET zone == insts[p[1]].zones.items[p[2]]
           IN  /\ IsDict(zone) /\ "devices" \in DOMAIN zone
               /\ IsList(zone.devices)
               /\ p[3] <= Len(zone.devices.items)
               /\ LET device == zone.devices.items[p[3]]
                  IN  /\ IsDict(device) /\ "id" \in DOMAIN device
                      /\ device.id # "" }

\* Traversal order.
Before(p, q) ==
    \/ p[1] < q[1]
    \/ p[1] = q[1] /\ p[2] < q[2]
    \/ p[1] = q[1] /\ p[2] = q[2] /\ p[3] < q[3]

\* C35: list_devices on a list of installations returns one record for every
\* device object with a non-empty id in a list of devices of a zone object in
\* a list of zones of an installation object, in traversal order, and nothing
\* else, whatever the other entries are; on installations that are no list
\* it raises.
TheoremC35_ListDevicesTraversal ==
    (setup.dir.pc = "done" /\ setup.dir.fetched = "ok") =>
        LET insts == InstallationsOf(setup.dir.response)
        IN  IF ~IsList(insts)
            THEN setup.dir.out = "raised"
            ELSE /\ setup.dir.out = "returned"
                 /\ Len(setup.dir.devices) = Cardinality(GoodPlaces(insts.items))
                 /\ \A p \in GoodPlaces(insts.items) :
                      LET n == 1 + Cardinality({ q \in GoodPlaces(insts.items) : Before(q, p) })
                          zone == insts.items[p[1]].zones.items[p[2]]
                      IN  /\ setup.dir.devices[n].id = zone.devices.items[p[3]].id
                          /\ setup.dir.devices[n].zone = zone.name

\* Devices of two installations returned around skipped entries: a string
\* among the zones, a device with an empty id.
WitnessC35 ==
    LET good == [t |-> "dict", id |-> "uuid-A", serialNumber |-> "SN1"]
        bare == [t |-> "dict", id |-> "uuid-B"]
        empty == [t |-> "dict", id |-> "", serialNumber |-> "SN3"]
        zone(devs) == [t |-> "dict", id |-> "Z1", name |-> "Living",
                       devices |-> JsonList(devs)]
        first == [t |-> "dict", zones |-> JsonList(<<JsonString, zone(<<bare, good>>)>>)]
        second == [t |-> "dict", zones |-> JsonList(<<zone(<<empty, good>>)>>)]
    IN  /\ setup.dir.pc = "done" /\ setup.dir.out = "returned"
        /\ setup.dir.response = [t |-> "dict", data |-> JsonList(<<first, second>>)]
        /\ Len(setup.dir.devices) = 3
        /\ setup.dir.devices[1].id = "uuid-B" /\ setup.dir.devices[3].id = "uuid-A"

(***************************************************************************)
(* ws.py: connect() called on a connected client (SpecConn)                *)
(***************************************************************************)

\* connect() is called while no coroutine is inside _connect: running is set
\* and _connect entered, whatever the socket and the tasks the client has.
ConnectAgain ==
    /\ cl.chain.pc = "none"
    /\ Len(socks) < MaxSockets
    /\ cl' = BeginConnect([cl EXCEPT !.running = TRUE], "caller")
    /\ UNCHANGED <<authVars, setupVars, socks>>

\* The listener's read loop ends while no coroutine is inside _connect.
ListenerEndsIdle == cl.chain.pc = "none" /\ ListenerEnds

\* The read loop of a listener without reference ends, its socket being
\* closed or its peer gone: _handle_disconnection cancels the keep-alive
\* task and closes the socket the client has now, whose listener goes on,
\* and schedules a reconnect.
StrayListenerEnds ==
    /\ cl.chain.pc = "none"
    /\ \E s \in cl.strays.listeners :
         /\ socks[s].closed \/ socks[s].peer = "gone"
         /\ socks' = CloseSocket(CloseSocket(socks, s), cl.ws)
         /\ \E j \in JitterPermille :
              cl' = HandleDisconnection(
                        [cl EXCEPT !.strays.listeners =
                             (@ \ {s}) \cup (IF cl.listener # 0 THEN {cl.listener} ELSE {})],
                        j)
    /\ UNCHANGED <<authVars, setupVars>>

\* A keep-alive task without reference wakes up with the loop condition
\* true: it pings the socket the client has now; a send that raises ends it.
StrayKeepalivePing ==
    /\ cl.strays.keepalives > 0
    /\ KeepaliveGoesOn
    /\ IF CanSend(cl, socks)
       THEN /\ cl.pings < MaxPings
            /\ socks' = WriteFrame(socks, cl.ws, Frame("0", 0, ""))
            /\ cl' = [cl EXCEPT !.pings = @ + 1]
       ELSE /\ socks' = socks
            /\ cl' = [cl EXCEPT !.strays.keepalives = @ - 1]
    /\ UNCHANGED <<authVars, setupVars>>

\* A keep-alive task without reference finds the loop condition false.
StrayKeepaliveExit ==
    /\ cl.strays.keepalives > 0
    /\ ~KeepaliveGoesOn
    /\ cl' = [cl EXCEPT !.strays.keepalives = @ - 1]
    /\ UNCHANGED <<authVars, setupVars, socks>>

\* The client after a setup that returned True, with one device.
InitConn ==
    /\ SteadyAfterSetup(<<DeviceA>>)
    /\ socks = <<FirstSocket(<<>>)>>

NextConn ==
    \/ ConnectAgain
    \/ WsConnectOkRid
    \/ WsConnectFails
    \/ SleepDone
    \/ TokenOk
    \/ TokenFails
    \/ SendHandshake
    \/ SendAuth
    \/ SubscribeSend
    \/ WaitTimeout
    \/ StartTasks
    \/ KeepalivePing
    \/ StrayKeepalivePing
    \/ StrayKeepaliveExit
    \/ PeerGone
    \/ ListenerEndsIdle
    \/ StrayListenerEnds

SpecConn == InitConn /\ [][NextConn]_vars

\* The sockets the client opened and has not closed, the listener tasks and
\* the keep-alive tasks that run.
OpenSockets == { s \in DOMAIN socks : ~socks[s].closed }

ListenerTasks == cl.strays.listeners \cup (IF cl.listener # 0 THEN {cl.listener} ELSE {})

KeepaliveTasks == cl.strays.keepalives + (IF cl.kaTask = "running" THEN 1 ELSE 0)

\* C37: the client has at most one open socket, one listener task and one
\* keep-alive task, whatever the calls of connect(), the server closes and
\* the reconnects before.
ClaimC37_OneSocketOneListenerOneKeepalive ==
    /\ Cardinality(OpenSockets) <= 1
    /\ Cardinality(ListenerTasks) <= 1
    /\ KeepaliveTasks <= 1

(***************************************************************************)
(* climate.py: async_set_hvac_mode and _handle_update (SpecHvac)           *)
(***************************************************************************)

HvacModes == {"heat", "off"}

\* async_set_hvac_mode: the updates built for a mode.
HvacUpdates(hvac_mode) ==
    IF hvac_mode = "heat" THEN [status |-> "comfort", power |-> 2]
    ELSE [status |-> "eco", power |-> 1]

\* _handle_update: the mode and the preset follow the "status" of the
\* update, "comfort" and "eco" both meaning HEAT and "ice" meaning OFF; the
\* entity is marked available.
HandleUpdate(h, state) ==
    LET h1 == [h EXCEPT !.available = TRUE]
    IN  IF state.status = "comfort"
        THEN [h1 EXCEPT !.hvac_mode = "heat", !.preset = "comfort"]
        ELSE IF state.status = "eco"
        THEN [h1 EXCEPT !.hvac_mode = "heat", !.preset = "eco"]
        ELSE IF state.status = "ice"
        THEN [h1 EXCEPT !.hvac_mode = "off", !.preset = NoneV]
        ELSE h1

\* async_set_hvac_mode: the updates are given to self.ws.send with the
\* device id alone; when the call returns, the mode asked for is set on the
\* entity, and when it raises the entity is marked unavailable and
\* RointeDeviceError raised.
SetHvacMode ==
    /\ entry.stored /\ entry.devices # <<>>
    /\ \E hvac_mode \in HvacModes :
         LET updates == HvacUpdates(hvac_mode)
             s == CallSend(cl, socks, StoredDevices(entry),
                           <<entry.devices[1].id, DOMAIN updates>>)
             h == [entry.heater EXCEPT !.asked = hvac_mode, !.wrote = updates,
                                       !.echoed = FALSE]
         IN  /\ cl' = s.cl
             /\ socks' = s.socks
             /\ entry' = [entry EXCEPT !.heater =
                    IF s.outcome = "TypeError"
                    THEN [h EXCEPT !.available = FALSE, !.ended = "RointeDeviceError"]
                    ELSE [h EXCEPT !.hvac_mode = hvac_mode,
                                   !.preset = IF hvac_mode = "heat" THEN "comfort" ELSE NoneV,
                                   !.ended = "returned"]]
    /\ UNCHANGED <<authVars, setup>>

\* The dispatcher delivers an update with exactly the fields the last
\* async_set_hvac_mode built.
HeaterEcho ==
    /\ entry.heater.asked # "none"
    /\ ~entry.heater.echoed
    /\ entry' = [entry EXCEPT !.heater =
                    [HandleUpdate(@, entry.heater.wrote) EXCEPT !.echoed = TRUE]]
    /\ UNCHANGED <<authVars, setup, wsVars>>

\* The dispatcher delivers another update of the device.
HeaterUpdate ==
    /\ entry.stored /\ entry.devices # <<>>
    /\ \E status \in {"comfort", "eco", "ice", "away", "none"}, power \in {0, 1, 2} :
         /\ [status |-> status, power |-> power] # entry.heater.wrote
         /\ entry' = [entry EXCEPT !.heater =
                [HandleUpdate(@, [status |-> status, power |-> power])
                    EXCEPT !.asked = "none", !.echoed = FALSE]]
    /\ UNCHANGED <<authVars, setup, wsVars>>

InitHvac == InitCmd

NextHvac ==
    \/ SetHvacMode
    \/ HeaterEcho
    \/ HeaterUpdate
    \/ PeerGone
    \/ ListenerEnds

SpecHvac == InitHvac /\ [][NextHvac]_vars

\* C39: once async_set_hvac_mode(mode) was called and an update echoing the
\* fields it built was handled, the entity's hvac_mode is that mode, for OFF
\* as for HEAT.
ClaimC39_EchoKeepsMode ==
    entry.heater.echoed => entry.heater.hvac_mode = entry.heater.asked

(***************************************************************************)
(* api.py: RointeAPI._get (SpecGet)                                        *)
(***************************************************************************)

MAX_RETRIES == 3

RETRY_DELAY == 1

\* What a GET is answered with: a status, or as 0 aiohttp.ClientError.
GetAnswers == {200, 401, 404, 500, 0}

\* A retry test that allows one attempt more.
CanRetryOnceMore(retry_count) == retry_count <= MAX_RETRIES

\* if retry_count < MAX_RETRIES
CanRetry(retry_count) == retry_count < MAX_RETRIES

\* _get ends with an exception.
GetRaises(g, err) == [g EXCEPT !.pc = "raised", !.err = err]

\* A 5xx answer or a ClientError: sleep RETRY_DELAY * (retry_count + 1) and
\* call _get again, or raise when the retries are used up.
RetryOrRaise(g, err) ==
    IF CanRetry(g.retry_count)
    THEN [g EXCEPT !.pc = "sleep",
                   !.delays = Append(@, RETRY_DELAY * (g.retry_count + 1))]
    ELSE GetRaises(g, err)

\* token = await self.auth.async_rest_token() at the head of _get: a stale
\* token makes a login POST; RointeRestAuthError reaches the last except
\* clause and is raised as RointeAPIError.
GetToken ==
    /\ setup.get.pc = "token"
    /\ IF TokenStale(rest.token, rest.expiry, now)
       THEN \E r \in Responses :
              LET o == AsyncLoginRest(rest, r, now)
                  g == [setup.get EXCEPT !.posts = @ + 1]
              IN  /\ rest' = o.st
                  /\ setup' = [setup EXCEPT !.get =
                         IF o.out = "ok" THEN [g EXCEPT !.pc = "get"]
                         ELSE GetRaises(g, "RointeAPIError")]
       ELSE /\ rest' = rest
            /\ setup' = [setup EXCEPT !.get.pc = "get"]
    /\ UNCHANGED <<now, fb, call, last, ncalls, entry, wsVars>>

\* session.get is answered.
GetAnswer ==
    /\ setup.get.pc = "get"
    /\ \E a \in GetAnswers :
         LET g == [setup.get EXCEPT !.gets = Append(@, a)]
         IN  setup' = [setup EXCEPT !.get =
                IF a = 200 THEN [g EXCEPT !.pc = "returned"]
                ELSE IF a = 401 THEN [g EXCEPT !.pc = "relogin"]
                ELSE IF a >= 500 THEN RetryOrRaise(g, "RointeAPIError")
                ELSE IF a = 0 THEN RetryOrRaise(g, "RointeNetworkError")
                ELSE GetRaises(g, "RointeAPIError")]
    /\ UNCHANGED <<authVars, entry, wsVars>>

\* asyncio.sleep is over: _get(path, retry_count + 1).
GetSleepDone ==
    /\ setup.get.pc = "sleep"
    /\ now' = now + setup.get.delays[Len(setup.get.delays)]
    /\ setup' = [setup EXCEPT !.get.pc = "token", !.get.retry_count = @ + 1]
    /\ UNCHANGED <<rest, fb, call, last, ncalls, entry, wsVars>>

\* After a 401: await self.auth.async_login_rest().
GetRelogin ==
    /\ setup.get.pc = "relogin"
    /\ \E r \in Responses :
         LET o == AsyncLoginRest(rest, r, now)
             g == [setup.get EXCEPT !.posts = @ + 1, !.reposts = @ + 1]
         IN  /\ rest' = o.st
             /\ setup' = [setup EXCEPT !.get =
                    IF o.out = "ok" THEN [g EXCEPT !.pc = "retoken"]
                    ELSE GetRaises(g, "RointeAuthenticationError")]
    /\ UNCHANGED <<now, fb, call, last, ncalls, entry, wsVars>>

\* Then token = await self.auth.async_rest_token(): the token just stored
\* may be stale by the getter's test, and is then asked for once more.
GetRetoken ==
    /\ setup.get.pc = "retoken"
    /\ IF TokenStale(rest.token, rest.expiry, now)
       THEN \E r \in Responses :
              LET o == AsyncLoginRest(rest, r, now)
                  g == [setup.get EXCEPT !.posts = @ + 1, !.reposts = @ + 1]
              IN  /\ rest' = o.st
                  /\ setup' = [setup EXCEPT !.get =
                         IF o.out = "ok" THEN [g EXCEPT !.pc = "reget"]
                         ELSE GetRaises(g, "RointeAuthenticationError")]
       ELSE /\ rest' = rest
            /\ setup' = [setup EXCEPT !.get.pc = "reget"]
    /\ UNCHANGED <<now, fb, call, last, ncalls, entry, wsVars>>

\* The GET retried with the new token is answered: 200 returns, anything
\* else, a ClientError included, is raised as RointeAuthenticationError.
GetRetryAnswer ==
    /\ setup.get.pc = "reget"
    /\ \E a \in GetAnswers :
         LET g == [setup.get EXCEPT !.gets = Append(@, a), !.regets = @ + 1]
         IN  setup' = [setup EXCEPT !.get =
                IF a = 200 THEN [g EXCEPT !.pc = "returned"]
                ELSE GetRaises(g, "RointeAuthenticationError")]
    /\ UNCHANGED <<authVars, entry, wsVars>>

\* _get is called with retry_count 0: by list_devices right after a login,
\* or by get_device_status before any login or an hour after one.
InitGet ==
    /\ fb = InitFb
    /\ call = [c \in Callers |-> IdleCall]
    /\ last = NoCompleted
    /\ ncalls = 0
    /\ InitWsFields
    /\ entry = NoEntry
    /\ setup = [InitSetup(TRUE) EXCEPT !.get.pc = "token"]
    /\ now \in {0, 3400}
    /\ \/ rest = InitRest
       \/ \E r \in Responses :
            /\ AsyncLoginRest(InitRest, r, 0).out = "ok"
            /\ rest = AsyncLoginRest(InitRest, r, 0).st

NextGet ==
    \/ GetToken
    \/ GetAnswer
    \/ GetSleepDone
    \/ GetRelogin
    \/ GetRetoken
    \/ GetRetryAnswer

\* The event loop resumes a coroutine whose await is answered, and every
\* request and sleep of _get ends (the session has a total timeout).
SpecGet == InitGet /\ [][NextGet]_vars /\ WF_vars(NextGet)

\* _get has returned or raised.
GetEnded == setup.get.pc \in {"returned", "raised"}

\* The GETs of the call so far were all answered 5xx or failed in the network.
OnlyServerOrNetworkErrors ==
    \A i \in DOMAIN setup.get.gets : setup.get.gets[i] >= 500 \/ setup.get.gets[i] = 0

\* Under 5xx answers and network errors at most MAX_RETRIES + 1 GETs are
\* made, the delays before them being 1 s, 2 s, 3 s, and the last one raises.
RetriesBounded ==
    /\ Len(setup.get.delays) <= MAX_RETRIES
    /\ \A i \in DOMAIN setup.get.delays : setup.get.delays[i] = RETRY_DELAY * i
    /\ OnlyServerOrNetworkErrors =>
          /\ Len(setup.get.gets) <= MAX_RETRIES + 1
          /\ Len(setup.get.gets) = MAX_RETRIES + 1 =>
                /\ setup.get.pc = "raised"
                /\ setup.get.delays = <<1, 2, 3>>

\* A 401 is followed by at most one retried GET, which ends the call.
OneRetriedGet ==
    /\ setup.get.regets <= 1
    /\ setup.get.regets = 1 => GetEnded
    /\ Len(setup.get.gets) <= MAX_RETRIES + 2

\* C40 as stated: the retries are bounded as above, and a 401 causes at most
\* one re-login and one retried GET.
ClaimC40_GetTerminates ==
    /\ RetriesBounded
    /\ OneRetriedGet
    /\ setup.get.reposts <= 1

\* C40, amended: _get always ends; the retries are bounded as above; a 401
\* causes at most two login POSTs (the re-login, and one more by
\* async_rest_token when the token just stored is stale by its test) and one
\* retried GET.
TheoremC40_GetTerminates ==
    /\ [](RetriesBounded /\ OneRetriedGet /\ setup.get.reposts <= 2)
    /\ <>GetEnded

\* Three retries after the delays 1 s, 2 s, 3 s, then a 401, two login
\* POSTs and the retried GET, which returns.
WitnessC40 ==
    /\ setup.get.pc = "returned"
    /\ setup.get.gets = <<500, 0, 500, 401, 200>>
    /\ setup.get.delays = <<1, 2, 3>>
    /\ setup.get.reposts = 2

(***************************************************************************)
(* Claims about the setup and the realtime client (Spec)                   *)
(***************************************************************************)

\* C6: when the REST login of async_setup_entry fails, the setup is aborted
\* with ConfigEntryNotReady, no RointeWebSocket is created or connected (no
\* socket, no session, no coroutine, not running) and no entry data is stored.
TheoremC6_RestFailureAborts ==
    setup.restOut = "failed" =>
        /\ setup.pc = "aborted"
        /\ setup.result = "NotReady:rest"
        /\ ~setup.wsObj
        /\ cl = NewClient
        /\ socks = <<>>
        /\ entry = NoEntry

\* C6's case: the REST login has failed.
WitnessC6 == setup.restOut = "failed" /\ setup.pc = "aborted"

\* C7: when the REST login succeeds and the Firebase sign-in fails, the setup
\* goes on without a realtime client: no RointeWebSocket is created and no
\* socket opened, device discovery runs, the entry data is stored (with ws
\* None), and the setup returns True; the only ConfigEntryNotReady left is
\* the one a failing platform forwarding raises.
TheoremC7_FirebaseFailureDegrades ==
    (setup.restOut = "ok" /\ setup.fbOut = "failed") =>
        /\ ~setup.wsObj
        /\ cl = NewClient
        /\ socks = <<>>
        /\ setup.pc \in {"discover", "forward", "done", "aborted", "unloaded"}
        /\ setup.pc \in {"forward", "done", "aborted"}
           => (setup.discovered /\ entry.stored /\ ~entry.ws)
        /\ setup.pc \in {"done", "unloaded"} => setup.result = "True"
        /\ setup.pc = "aborted" => setup.result = "NotReady:forward"

\* C7's case: the sign-in failed after a successful login, and the setup has
\* returned True with the entry stored.
WitnessC7 ==
    /\ setup.restOut = "ok"
    /\ setup.fbOut = "failed"
    /\ setup.pc = "done"
    /\ entry.stored

\* The frames of a socket other than the keep-alive pings.
DataFrames(s) == SelectSeq(socks[s].frames, LAMBDA f : f.a # "0")

FrameRank(a) == CASE a = "s" -> 1 [] a = "auth" -> 2 [] a = "g" -> 3 [] OTHER -> 4

\* C8: on every connection the frames are written in the order handshake,
\* auth, gets, subscribes, and a get or subscribe frame is written only after
\* the handshake frame and then the auth frame were written on it.
ClaimC8_FrameOrder ==
    \A s \in DOMAIN socks :
        LET fs == DataFrames(s)
        IN  /\ \A i, k \in DOMAIN fs : i < k => FrameRank(fs[i].a) <= FrameRank(fs[k].a)
            /\ \A i \in DOMAIN fs :
                   fs[i].a \in {"g", "q"} =>
                       (i > 2 /\ fs[1].a = "s" /\ fs[2].a = "auth")

\* C9: while the client is running with attempts left, an error in any phase
\* of a connection (the token fetch included) moves it to reconnecting: it
\* never settles into steady state, the listener reading the open socket, on
\* a connection on which such an error occurred.
ClaimC9_ErrorsReconnect ==
    ~ /\ cl.running
      /\ cl.attempts < max_reconnect_attempts
      /\ cl.logged # "none"
      /\ cl.chain.pc = "none"
      /\ cl.listener # 0
      /\ cl.listener = cl.ws
      /\ ~socks[cl.listener].closed
      /\ socks[cl.listener].peer = "up"

\* C10: once disconnect() has been invoked (the entry is unloaded) no new
\* socket is opened and no keep-alive or listener task is started.
ClaimC10_DisconnectSuppresses ==
    [][(setup.pc = "unloaded" /\ setup.wsObj) =>
          /\ Len(socks') = Len(socks)
          /\ cl'.listener # 0 => cl'.listener = cl.listener
          /\ cl'.kaTask = "running" => cl.kaTask = "running"]_vars

\* C11: when disconnect() returns, whatever the state it was called in, the
\* keep-alive task is not running (cancelled, or ended by itself), every
\* socket the client opened is closed and the aiohttp session is closed.
TheoremC11_DisconnectReleases ==
    [][(setup.pc = "done" /\ setup'.pc = "unloaded" /\ entry.ws) =>
          /\ cl'.kaTask # "running"
          /\ \A s \in DOMAIN socks' : socks'[s].closed
          /\ cl'.session = "closed"]_vars

\* C11's case: disconnect() has returned on a client that was in steady
\* state: the socket the listener still holds was closed locally with its
\* peer up, the keep-alive task is cancelled and the session closed.
WitnessC11 ==
    /\ setup.pc = "unloaded"
    /\ cl.listener # 0
    /\ socks[cl.listener].closed
    /\ socks[cl.listener].peer = "up"
    /\ cl.kaTask = "none"
    /\ cl.session = "closed"

\* C12: on every exit path of a session (the setup aborted after the client
\* connected, the entry unloaded) no socket of the session is open, its
\* aiohttp session is not open and no keep-alive or listener task runs.
ClaimC12_NoLeakOnExit ==
    (setup.pc = "aborted" /\ setup.wsObj) =>
        /\ \A s \in DOMAIN socks : socks[s].closed
        /\ cl.session # "open"
        /\ cl.kaTask # "running"
        /\ cl.listener = 0

\* The answer to request r has arrived on socket s and waits to be read.
ResponseArrived(s, r) ==
    s # 0 /\ \E i \in DOMAIN socks[s].inbox : socks[s].inbox[i].r = r

\* C13: while _send_and_wait waits for the answer to a get request and the
\* server's frame carrying that r has arrived (before the 5 s bound ran
\* out), the wait does not end in a timeout: it ends with the response.
ClaimC13_ResponseResolves ==
    [][(cl.chain.pc = "wait" /\ cl.logged = "none" /\ ResponseArrived(cl.ws, cl.chain.req) /\ cl'.chain.pc # "wait")
          => cl'.waited = "response"]_vars

\* C15: within one connection the request ids of the frames written are
\* strictly increasing, and no request id is handed out while it is a key
\* of the pending-request map.
ClaimC15_RidFreshAndIncreasing ==
    [][/\ \A s \in DOMAIN socks' :
             LET fs == SelectSeq(socks'[s].frames, LAMBDA f : f.a # "0")
             IN  \A i \in 1..(Len(fs) - 1) : fs[i].r < fs[i + 1].r
       /\ \A r \in cl.pending : ~(cl.rid < r /\ r <= cl'.rid)]_vars

\* C16: once the client has made its first connection the request counter
\* is never set back: every later (re)connection continues from the value
\* the counter had, whatever that value is.
ClaimC16_RidNeverReset ==
    [][Len(socks) >= 1 => cl'.rid >= cl.rid]_vars

\* C14: whenever no _send_and_wait call is in progress the pending-request
\* map is empty.
ClaimC14_PendingEmptied ==
    cl.chain.pc # "wait" => cl.pending = {}

\* The client is in steady state: the listener reads, and the keep-alive
\* task runs on, the open socket self.ws.
SteadyState ==
    /\ cl.chain.pc = "none"
    /\ cl.listener # 0
    /\ cl.listener = cl.ws
    /\ cl.kaTask = "running"
    /\ ~socks[cl.ws].closed
    /\ socks[cl.ws].peer = "up"

\* The paths of the subscribe frames written on socket s.
SubscribedPaths(s) ==
    {socks[s].frames[i].p : i \in {k \in DOMAIN socks[s].frames : socks[s].frames[k].a = "q"}}

\* C17: whenever the client is in steady state on a connection set up
\* without a logged error, a subscribe frame was
\* written on its socket for /devices/{serial} of every stored device with a
\* serial number and for /zones/{id}/data of every discovered zone that has
\* a stored device.
ClaimC17_SubscribedInSteadyState ==
    (SteadyState /\ cl.logged = "none" /\ entry.stored) =>
        /\ \A i \in DOMAIN entry.devices :
               entry.devices[i].serialNumber # NoneV =>
                   ("/devices/" \o entry.devices[i].serialNumber) \in SubscribedPaths(cl.ws)
        /\ \A z \in DOMAIN DiscoveredZones :
               (\E i \in DOMAIN entry.devices :
                    entry.devices[i].zone = DiscoveredZones[z].name)
               => ("/zones/" \o DiscoveredZones[z].id \o "/data") \in SubscribedPaths(cl.ws)

\* C18: a connection made after a disconnect that reaches steady state
\* without a logged error carries the same set of subscribe paths as the
\* initial connection.
ClaimC18_SameSubscriptions ==
    (SteadyState /\ cl.ws > 1 /\ cl.logged = "none") =>
        SubscribedPaths(cl.ws) = SubscribedPaths(1)

\* C27: the delay slept before the n-th consecutive reconnect attempt lies
\* within [0.9, 1.1] times min(2^(n-1), 60) seconds.
TheoremC27_BackoffBounds ==
    cl.chain.pc = "sleep" =>
        LET n == cl.attempts
            nominal == IF n >= 7 THEN 60 ELSE 2 ^ (n - 1)
        IN  /\ n >= 1
            /\ 900 * nominal <= cl.chain.delay
            /\ cl.chain.delay <= 1100 * nominal

WitnessC27 ==
    /\ cl.chain.pc = "sleep"
    /\ cl.attempts = 7
    /\ cl.chain.delay = 66000

\* The client has given up: the attempts are used up and no coroutine, task
\* or socket of it is left.
GivenUp ==
    /\ cl.attempts = 10
    /\ cl.chain = NoChain
    /\ cl.listener = 0 /\ cl.ws = 0

\* C28: reconnect_attempts stays within 0..10, and once the client has given
\* up after 10 failed attempts in a row no step makes it try again: no
\* socket is opened, no coroutine started, and the counter stays at 10.
TheoremC28_GivesUpAfterTen ==
    [][/\ cl'.attempts \in 0..10
       /\ GivenUp => (/\ Len(socks') = Len(socks)
                      /\ cl'.chain = NoChain
                      /\ cl'.listener = 0 /\ cl'.ws = 0
                      /\ cl'.attempts = 10)]_vars

WitnessC28 ==
    /\ GivenUp
    /\ cl.running
    /\ setup.pc = "done"
    /\ Len(socks) = 1

(***************************************************************************)
(* Claims about _handle_message (SpecMsg)                                  *)
(***************************************************************************)

\* The frame {"t":"d","d":{"b":{"p":"devices/SN123/data","d":{"temp":21}}}}.
ScenarioFrame ==
    Inbound("d", NoRid, NoneV, TRUE, NoneV,
            Path(FALSE, <<"devices", "SN123", "data">>), Flat("temp=21"))

\* The frame the listener is about to read.
NextFrame == Head(socks[cl.listener].inbox)

FrameWaits == cl.listener # 0 /\ socks[cl.listener].inbox # <<>>

\* C19: the scenario frame, read while the directory maps SN123 to uuid-A,
\* yields exactly one dispatcher send, keyed by uuid-A, with {"temp": 21}.
ClaimC19_ScenarioPublish ==
    [][(/\ FrameWaits
        /\ NextFrame = ScenarioFrame
        /\ \E i \in DOMAIN entry.devices :
               entry.devices[i].serialNumber = "SN123" /\ entry.devices[i].id = "uuid-A")
          => cl'.pubs = cl.pubs \o <<Publish("uuid-A", Flat("temp=21"))>>]_vars

\* C20: a push for zones/Z1/data, in the form _handle_message takes for a
\* data update (the action letter inside "b"), with N discovered devices in
\* zone Z1 (named "Living"), yields exactly N dispatcher sends, one per
\* device id, each with the frame's data.
ClaimC20_ZonePush ==
    [][(/\ FrameWaits
        /\ NextFrame.t = "d" /\ NextFrame.r = NoRid /\ NextFrame.hasB
        /\ NextFrame.ba \in {"d", "m"}
        /\ NextFrame.p = Path(FALSE, <<"zones", "Z1", "data">>)
        /\ NextFrame.d # NoData)
          => LET inZone == SelectSeq(entry.devices, LAMBDA d : d.zone = "Living")
             IN  cl'.pubs = cl.pubs \o
                     [i \in DOMAIN inZone |-> Publish(inZone[i].id, NextFrame.d)]]_vars

\* The frame is a data push _handle_message routes: type "d", no pending
\* request answered, the action letter inside "b", a path and data.
RoutedPush(m) ==
    /\ m.t = "d" /\ m.r = NoRid /\ m.hasB /\ m.ba \in {"d", "m"}
    /\ m.p # NoPath /\ ~m.p.lead /\ m.d # NoData

KnownSerial(serial) ==
    \E i \in DOMAIN entry.devices : entry.devices[i].serialNumber = serial

\* C21: every routed push to a path under devices/{serial} with a serial of
\* the directory, snapshot or flat merge, yields exactly one dispatcher send,
\* keyed by the device's id, carrying the fields.
ClaimC21_DevicePushPublishes ==
    [][(/\ FrameWaits
        /\ RoutedPush(NextFrame)
        /\ NextFrame.p.segs[1] = "devices"
        /\ NextFrame.d.kind \in {"flat", "snapshot"}
        /\ KnownSerial(NextFrame.p.segs[2]))
          => \E i \in DOMAIN entry.devices :
                 /\ entry.devices[i].serialNumber = NextFrame.p.segs[2]
                 /\ cl'.pubs = cl.pubs \o
                        <<Publish(entry.devices[i].id, Flat(NextFrame.d.v))>>]_vars

\* C22: a routed push to devices/{serial} whose serial is not in the
\* directory is dropped: no dispatcher send, the listener keeps reading the
\* same open socket and no reconnect is scheduled.
TheoremC22_UnknownSerialDropped ==
    [][(/\ FrameWaits
        /\ RoutedPush(NextFrame)
        /\ NextFrame.p.segs[1] = "devices"
        /\ ~KnownSerial(NextFrame.p.segs[2]))
          => /\ cl'.pubs = cl.pubs
             /\ cl'.listener = cl.listener /\ cl'.ws = cl.ws
             /\ ~socks'[cl.listener].closed
             /\ cl'.chain = cl.chain
             /\ Len(cl'.handled) = Len(cl.handled) + 1]_vars

WitnessC22 ==
    /\ Len(cl.handled) = 1
    /\ cl.handled[1].m = Inbound("d", NoRid, NoneV, TRUE, "m",
                                 Path(FALSE, <<"devices", "SN999", "data">>),
                                 Flat("temp=21"))
    /\ entry.devices # <<>>
    /\ cl.pubs = <<>>
    /\ cl.listener = 1 /\ ~socks[1].closed

\* C23: a frame whose "r" is the id of a pending request resolves that
\* request and is not routed further: no dispatcher send, even when the
\* frame carries a path and data.
TheoremC23_ResponseNotRouted ==
    [][(/\ FrameWaits
        /\ NextFrame.t = "d"
        /\ NextFrame.r # NoRid /\ NextFrame.r \in cl.pending)
          => /\ cl'.pending = cl.pending \ {NextFrame.r}
             /\ cl'.pubs = cl.pubs
             /\ cl'.handled[Len(cl'.handled)].resolved = NextFrame.r]_vars

WitnessC23 ==
    /\ Len(cl.handled) = 1
    /\ cl.handled[1].m = Inbound("d", LeftPending, NoneV, TRUE, "m",
                                 Path(FALSE, <<"devices", "SN123", "data">>),
                                 Flat("temp=21"))
    /\ cl.handled[1].resolved = LeftPending
    /\ KnownSerial("SN123")
    /\ cl.pending = {}
    /\ cl.pubs = <<>>

\* C34: the text "0" is not given to _handle_message: reading it resolves
\* no pending request, makes no dispatcher send and changes nothing of the
\* client; the socket stays as it is but for the frame read.
TheoremC34_KeepaliveAckFiltered ==
    [][(FrameWaits /\ NextFrame = KeepaliveAck)
          => /\ cl' = cl
             /\ ~socks'[cl.listener].closed
             /\ socks'[cl.listener].frames = socks[cl.listener].frames]_vars

\* The ack was read while a request was pending, and the frame after it was
\* handled as the first.
WitnessC34 ==
    /\ socks[1].skipped = 1
    /\ cl.pending = {LeftPending}
    /\ Len(cl.handled) = 1 /\ cl.handled[1].m = FollowUp
    /\ cl.listener = 1

\* A text that is no well-formed frame: not JSON, not an object, "d" not an
\* object, keys missing, or a number where the fields should be.
Malformed(m) ==
    \/ m.t \in Unparsable
    \/ m.t = "d" /\ m.r = NoRid /\ (~m.hasB \/ m.p = NoPath \/ m.d = NoData)
    \/ m.t = "d" /\ m.r = NoRid /\ m.hasB /\ m.d.kind = "number"

\* C29: a malformed inbound text is dropped: no exception leaves
\* _handle_message, so the listener keeps reading the same open socket, no
\* reconnect is scheduled, and the frame after it is processed normally
\* (FollowUp yields its one dispatcher send).
TheoremC29_MalformedDropped ==
    (cl.handled # <<>> /\ Malformed(cl.handled[1].m)) =>
        /\ cl.listener = 1 /\ cl.ws = 1 /\ cl.running
        /\ ~socks[1].closed
        /\ cl.chain = NoChain
        /\ cl.kaTask = "running"
        /\ Len(cl.handled) = 1 => cl.pubs = <<>>
        /\ (Len(cl.handled) = 2 /\ cl.handled[2].m = FollowUp) =>
               cl.pubs = IF KnownSerial("SN123")
                         THEN <<Publish("uuid-A", Flat("temp=21"))>>
                         ELSE <<>>

WitnessC29 ==
    /\ Len(cl.handled) = 2
    /\ cl.handled[1].m = BadText("invalid-json")
    /\ cl.handled[1].logged
    /\ cl.handled[2].m = FollowUp
    /\ cl.pubs = <<Publish("uuid-A", Flat("temp=21"))>>
    /\ cl.listener = 1 /\ ~socks[1].closed

(***************************************************************************)
(* Claims about send() and the entity commands (SpecCmd)                   *)
(***************************************************************************)

\* C24: a send() made while the socket is absent or closed raises nothing,
\* writes no frame, and returns a result that differs from the result of a
\* send() that wrote its frame.
ClaimC24_DisconnectedSendFails ==
    \A i \in DOMAIN cl.cmds :
        cl.cmds[i].outcome = "not_connected" =>
            /\ cl.cmds[i].raised = "none"
            /\ cl.cmds[i].frames = 0
            /\ \A j \in DOMAIN cl.cmds :
                   cl.cmds[j].outcome = "sent" => cl.cmds[j].ret # cl.cmds[i].ret

\* The frame the i-th command wrote: the last one written to its socket at
\* the time, found by the request id the command took.
CommandFrameOf(i) ==
    LET fs == socks[cl.cmds[i].sock].frames
        written == Cardinality({j \in 1..i : cl.cmds[j].outcome = "sent"
                                            /\ cl.cmds[j].sock = cl.cmds[i].sock})
    IN  fs[2 + written]

\* C25: a command for device X with fields F that send() encodes (X has a
\* serial number and the frame is written) gives a merge frame (action m)
\* on the path /devices/{serial(X)}/data whose fields are exactly F and the
\* timestamp field, none of the cached device record; the same command
\* encoded again gives the same path and fields.
TheoremC25_CommandEncoding ==
    \A i \in DOMAIN cl.cmds :
        cl.cmds[i].outcome = "sent" =>
            /\ CommandFrameOf(i).a = "m"
            /\ \E k \in DOMAIN entry.devices :
                   /\ entry.devices[k].id = cl.cmds[i].device
                   /\ CommandFrameOf(i).p =
                          "/devices/" \o entry.devices[k].serialNumber \o "/data"
            /\ CommandFrameOf(i).d = cl.cmds[i].updates \cup {"last_sync_datetime_device"}
            /\ \A j \in DOMAIN cl.cmds :
                   (/\ cl.cmds[j].outcome = "sent"
                    /\ cl.cmds[j].device = cl.cmds[i].device
                    /\ cl.cmds[j].updates = cl.cmds[i].updates)
                       => /\ CommandFrameOf(j).p = CommandFrameOf(i).p
                          /\ CommandFrameOf(j).d = CommandFrameOf(i).d

WitnessC25 ==
    /\ Len(cl.cmds) = 2
    /\ cl.cmds[1].outcome = "sent" /\ cl.cmds[2].outcome = "sent"
    /\ cl.cmds[1].device = "uuid-B" /\ cl.cmds[2].device = "uuid-B"
    /\ cl.cmds[1].updates = {"mode", "power"} /\ cl.cmds[2].updates = {"mode", "power"}
    /\ socks[1].frames[3].p = "/devices/SN456/data"
    /\ socks[1].frames[4].p = "/devices/SN456/data"
    /\ socks[1].frames[4].d = {"mode", "power", "last_sync_datetime_device"}

\* C26: every command of an entity for a device with a serial number, made
\* while the connection is up, results in exactly one call of send in the
\* form it accepts and in exactly one merge frame written.
ClaimC26_CommandSendsOnce ==
    \A i \in DOMAIN cl.cmds :
        (/\ cl.cmds[i].connected
         /\ \E k \in DOMAIN entry.devices :
                /\ entry.devices[k].id = cl.cmds[i].device
                /\ entry.devices[k].serialNumber # NoneV)
            => /\ cl.cmds[i].calls = 1
               /\ cl.cmds[i].frames = 1
               /\ cl.cmds[i].raised = "none"

(***************************************************************************)
(* Claim about two accounts (SpecAcct)                                     *)
(***************************************************************************)

\* The paths of this account's directory.
OwnPaths ==
    { "/devices/" \o entry.devices[i].serialNumber :
        i \in { k \in DOMAIN entry.devices : entry.devices[k].serialNumber # NoneV } }
    \cup { "/zones/" \o entry.devices[i].zone_id \o "/data" :
        i \in { k \in DOMAIN entry.devices : entry.devices[k].zone_id # NoneV } }

\* C30: with another account configured, this account's client gets and
\* subscribes only paths of its own directory, and what it reads from its
\* socket is published only to devices of its own directory.
ClaimC30_AccountIsolation ==
    /\ \A s \in DOMAIN socks : \A i \in DOMAIN socks[s].frames :
           socks[s].frames[i].a \in {"g", "q"} => socks[s].frames[i].p \in OwnPaths
    /\ \A i \in DOMAIN cl.pubs :
           \E k \in DOMAIN entry.devices : entry.devices[k].id = cl.pubs[i].key

(***************************************************************************)
(* Claims about the logins behind the token getters (SpecAuth)             *)
(***************************************************************************)

\* C32: a REST login answered with a 5xx is retried, and the error raised
\* when the retries are used up is of a transient kind, not the kind a
\* rejected credential (401) raises.
ClaimC32_RestLoginRetries5xx ==
    (/\ last.kind = "rest"
     /\ last.tries # <<>>
     /\ last.tries[1].status >= 500)
        => /\ Len(last.tries) > 1
           /\ last.out = "raised" => last.res # "RestAuthError"

\* C33: async_firebase_token with a stale token and a refresh token tries
\* the refresh grant first and signs in only when that refresh failed;
\* without a refresh token it signs in directly; a refresh that succeeded is
\* the only attempt of the call, and a fresh token makes none.
TheoremC33_RefreshThenSignIn ==
    last.kind = "firebase" =>
        LET stale == last.found.stale
            tries == last.tries
        IN  /\ ~stale => tries = <<>>
            /\ (stale /\ last.found.refresh # NoneV) =>
                   /\ Len(tries) >= 1
                   /\ tries[1].kind = "fb_refresh"
                   /\ tries[1].ok => Len(tries) = 1
                   /\ ~tries[1].ok => (Len(tries) = 2 /\ tries[2].kind = "fb_signin")
            /\ (stale /\ last.found.refresh = NoneV) =>
                   /\ Len(tries) = 1
                   /\ tries[1].kind = "fb_signin"

\* A refresh answered 401 was followed by a sign-in that succeeded.
WitnessC33 ==
    /\ last.kind = "firebase"
    /\ last.found.stale /\ last.found.refresh = "R1"
    /\ last.tries = <<Try("fb_refresh", 401, FALSE), Try("fb_signin", 200, TRUE)>>
    /\ last.out = "returned"

(***************************************************************************)
(* Claims about the configuration flow (SpecFlow)                          *)
(***************************************************************************)

\* The credential problem of a submission: a badly formed email, and, of a
\* well-formed input, the wrong password, the disabled account and the rate
\* limit the server answers with.
Problem(sub) ==
    IF sub.in.email = "malformed" THEN "bad email format"
    ELSE IF sub.in.password = "short" THEN "none"
    ELSE IF sub.answer = FlowAnswer(400, "INVALID_PASSWORD") THEN "wrong password"
    ELSE IF sub.answer = FlowAnswer(400, "USER_DISABLED") THEN "disabled account"
    ELSE IF sub.answer \in {FlowAnswer(400, "TOO_MANY_ATTEMPTS_TRY_LATER"),
                            FlowAnswer(429, "")} THEN "rate-limited"
    ELSE "none"

\* C31: each of the four credential problems shows the form with an error
\* of its own: two submissions with different problems get different
\* errors, and none gets the generic unknown or cannot_connect.
ClaimC31_DistinctFormErrors ==
    \A i, j \in DOMAIN setup.flow :
        (Problem(setup.flow[i]) # "none" /\ Problem(setup.flow[j]) # "none") =>
            /\ setup.flow[i].errors # {}
            /\ \A e \in setup.flow[i].errors : e[2] \notin {"unknown", "cannot_connect"}
            /\ Problem(setup.flow[i]) # Problem(setup.flow[j])
                   => setup.flow[i].errors # setup.flow[j].errors

\* C38: the setup of an entry the flow created is never aborted for a
\* missing email or password.
ClaimC38_CreatedEntrySetsUp ==
    (setup.flow # <<>> /\ setup.flow[Len(setup.flow)].created)
        => setup.result # "NotReady:credentials"

(***************************************************************************)
(* Claims about the token getters (SpecAuth)                               *)
(***************************************************************************)

\* C1: whenever a token getter returns a token, the token's remaining
\* lifetime at the moment of return (expiry - now) is at least the 5-minute
\* expiry buffer, whatever expires_in the response carried.
ClaimC1_RemainingLifetime ==
    (last.out = "returned" /\ last.res # NoneV) => last.left >= TOKEN_EXPIRY_BUFFER

\* C2: concurrent callers of one token kind share one login / refresh: at no
\* time are two POSTs for the same kind in flight.
ClaimC2_SingleFlight ==
    \A c1, c2 \in Callers :
        c1 # c2 =>
            /\ ~(call[c1].pc = "rest_login" /\ call[c2].pc = "rest_login")
            /\ ~(call[c1].pc \in {"fb_refresh", "fb_login"}
                 /\ call[c2].pc \in {"fb_refresh", "fb_login"})

\* C3: a token getter that returns, returns a present token, never None.
ClaimC3_NeverAbsent ==
    last.out = "returned" => last.res # NoneV

\* C4: when the login / refresh made by a token getter fails, the getter
\* raises the error of its kind and the stored token value, expiry and
\* refresh token of that kind are what they were before the attempt.
ClaimC4_FailureLeavesState ==
    last.out = "raised" =>
        /\ last.res = (IF last.kind = "rest" THEN "RestAuthError" ELSE "FirebaseAuthError")
        /\ ~last.wrote

\* The cache the scenario's login at time 0 leaves: token T1 expiring at 3600.
ScenarioCache == rest.token = "T1" /\ rest.expiry = 3600

\* C5 as amended: the login at time 0 answered {token T1, user U1,
\* expires_in 3600} returns T1; a later async_rest_token call made before
\* 3300 s (3600 less the 300 s buffer) returns T1 with no login POST; a call
\* made at 3300 s or later, which covers 3600-200 s and the last 299 s before
\* expiry, starts a second login.
TheoremC5_Scenario ==
    [][\A c \in Callers :
          /\ (call[c].pc = "rest_login" /\ call'[c].pc = "idle" /\ now = 0
                /\ rest' = [token |-> "T1", refresh |-> "R1", userId |-> "U1",
                            expiry |-> 3600]
                /\ last'.tries # <<>> /\ last'.tries[Len(last'.tries)].ok)
             => (last'.out = "returned" /\ last'.res = "T1")
          /\ (CallRestToken(c) /\ ScenarioCache)
             => IF now < 3300
                THEN call'[c].pc = "idle" /\ last'.out = "returned" /\ last'.res = "T1"
                ELSE call'[c].pc = "rest_login" /\ last' = last]_vars

\* C5's case: a call at 3299 s was answered from the cache (301 s left), and
\* a call at 3400 s has a second login POST in flight.
WitnessC5 ==
    /\ now = 3400
    /\ ScenarioCache
    /\ last.kind = "rest" /\ last.out = "returned" /\ last.res = "T1" /\ last.left = 301
    /\ \E c \in Callers : call[c].pc = "rest_login"

\* C5 as stated: with T1 expiring at 3600, a call at 3600-200 s still returns
\* T1 without a login, and a call within the last 299 s before expiry starts
\* a second login.
ClaimC5_Original ==
    [][\A c \in Callers :
          (CallRestToken(c) /\ ScenarioCache) =>
              /\ now = 3600 - 200
                 => (call'[c].pc = "idle" /\ last'.out = "returned" /\ last'.res = "T1")
              /\ (now > 3600 - 300 /\ now # 3600 - 200)
                 => call'[c].pc = "rest_login"]_vars

(***************************************************************************)
(* Claims about send() beside the connect sequence (SpecRid)               *)
(***************************************************************************)

\* C36: on every socket, a merge frame of send() comes after the handshake
\* frame and the auth frame of that socket.
ClaimC36_NoCommandBeforeAuth ==
    \A s \in DOMAIN socks :
        \A i \in DOMAIN socks[s].frames :
            socks[s].frames[i].a = "m" =>
                /\ \E j \in 1..(i - 1) : socks[s].frames[j].a = "s"
                /\ \E j \in 1..(i - 1) : socks[s].frames[j].a = "auth"

====
